---- MODULE Spec2Model ----
(***************************************************************************)
(* State-machine model of handsoff-rs: the shared session state            *)
(* (src/app_state.rs), the keyboard/pointer engine                         *)
(* (src/input_blocking/mod.rs, event_tap.rs), the controller and its timer *)
(* supervisors (src/lib.rs) and the tray front-end loop                    *)
(* (src/bin/handsoff-tray.rs).                                             *)
(*                                                                         *)
(* Time: an Instant is represented by the number of whole seconds elapsed  *)
(* since it was taken (what Instant::elapsed().as_secs() returns); the     *)
(* action Tick lets one second pass and Instant::now() is elapsed 0.  An   *)
(* elapsed value saturates at the timeout it is compared with, so every    *)
(* comparison elapsed >= timeout is exact.                                 *)
(***************************************************************************)
EXTENDS Integers, Sequences, FiniteSets, TLC

\* ------------------------------------------------------------------ bounds
\* Longest input_buffer the environment types into (the code has no limit).
MaxBuffer == 3
\* Timeouts (seconds) used in place of the production values; the library
\* accepts any u64 (tests use 1 and 2).
AutoLockTimeout == 2
BufferResetTimeout == 1
AutoUnlockTimeout == 2
MaxLockCycles == 2
MaxLiveTaps == 2

\* ------------------------------------------------------- program constants
BACKSPACE_KEYCODE == 51
DEFAULT_LOCK_KEYCODE == 37
DEFAULT_TALK_KEYCODE == 17
SPACE_KEYCODE == 49

\* ------------------------------------------------------------------ Option
None == << >>
Some(x) == << x >>
IsSome(o) == o # << >>
Unwrap(o) == o[1]


\* -------------------------------------------------- Character Classifier
\* Rows <<keycode, unshifted, shifted>> of the match in keycode_to_char
\* (the grave accent of keycode 50 is written "backtick": the string syntax
\* has no literal for it).
KeyTable ==
  << <<0, "a", "A">>, <<1, "s", "S">>, <<2, "d", "D">>, <<3, "f", "F">>,
     <<4, "h", "H">>, <<5, "g", "G">>, <<6, "z", "Z">>, <<7, "x", "X">>,
     <<8, "c", "C">>, <<9, "v", "V">>, <<11, "b", "B">>, <<12, "q", "Q">>,
     <<13, "w", "W">>, <<14, "e", "E">>, <<15, "r", "R">>, <<16, "y", "Y">>,
     <<17, "t", "T">>, <<31, "o", "O">>, <<32, "u", "U">>, <<34, "i", "I">>,
     <<35, "p", "P">>, <<37, "l", "L">>, <<38, "j", "J">>, <<40, "k", "K">>,
     <<45, "n", "N">>, <<46, "m", "M">>,
     <<18, "1", "!">>, <<19, "2", "@">>, <<20, "3", "#">>, <<21, "4", "$">>,
     <<23, "5", "%">>, <<22, "6", "^">>, <<26, "7", "&">>, <<28, "8", "*">>,
     <<25, "9", "(">>, <<29, "0", ")">>,
     <<27, "-", "_">>, <<24, "=", "+">>, <<33, "[", "{">>, <<30, "]", "}">>,
     <<41, ";", ":">>, <<39, "'", "\"">>, <<42, "\\", "|">>, <<43, ",", "<">>,
     <<47, ".", ">">>, <<44, "/", "?">>, <<50, "backtick", "~">>,
     <<49, " ", " ">>,
     <<36, "\n", "\n">>, <<76, "\n", "\n">>,
     <<48, "\t", "\t">> >>

\* The classifier without its shift argument.
keycode_to_char_unshifted(keycode, shift) ==
  LET rows == { i \in 1..Len(KeyTable) : KeyTable[i][1] = keycode }
  IN  IF rows = {} THEN None
      ELSE LET i == CHOOSE j \in rows : TRUE
           IN  Some(KeyTable[i][2])

keycode_to_char(keycode, shift) ==
  LET rows == { i \in 1..Len(KeyTable) : KeyTable[i][1] = keycode }
  IN  IF rows = {} THEN None
      ELSE LET i == CHOOSE j \in rows : TRUE
           IN  Some(IF shift THEN KeyTable[i][3] ELSE KeyTable[i][2])

\* --------------------------------------------------- Credential Verifier
\* Every character the classifier can produce, in table order.
Chars == { KeyTable[i][2] : i \in 1..Len(KeyTable) }
           \cup { KeyTable[i][3] : i \in 1..Len(KeyTable) }

CharCode ==
  [ c \in Chars |->
      LET i == CHOOSE j \in 1..Len(KeyTable) : c \in {KeyTable[j][2], KeyTable[j][3]}
      IN  IF c = KeyTable[i][2] THEN 2 * i - 1 ELSE 2 * i ]

HashBase == 2 * Len(KeyTable) + 1

\* SHA-256 followed by hex encoding, idealised as a collision-free digest:
\* a positional code of the characters led by 1, so that distinct strings
\* (of any lengths) have distinct digests.
RECURSIVE hash_passphrase(_)
hash_passphrase(passphrase) ==
  IF passphrase = << >> THEN 1
  ELSE hash_passphrase(SubSeq(passphrase, 1, Len(passphrase) - 1)) * HashBase
         + CharCode[passphrase[Len(passphrase)]]

verify_passphrase_suffix(passphrase, hash) ==
  \E i \in 1..(Len(passphrase) + 1) :
    hash_passphrase(SubSeq(passphrase, i, Len(passphrase))) = hash

verify_passphrase(passphrase, hash) == hash_passphrase(passphrase) = hash

\* The passphrase the session is started with.
Passphrase == << "t", " " >>

\* ---------------------------------------------------------- Session State
\* AppStateInner after AppState::new(); the Instant last_input_time is its
\* elapsed seconds.
AppState_new ==
  [ is_locked |-> FALSE,
    input_buffer |-> << >>,
    last_key_time |-> None,
    last_input_time |-> 0,
    passphrase_hash |-> None,
    auto_lock_timeout |-> 120,
    buffer_reset_timeout |-> 3,
    talk_key_pressed |-> FALSE,
    lock_start_time |-> None,
    auto_unlock_timeout |-> None,
    has_accessibility_permissions |-> FALSE,
    should_stop_event_tap |-> FALSE,
    should_start_event_tap |-> FALSE,
    should_exit |-> FALSE,
    is_disabled |-> FALSE,
    lock_keycode |-> DEFAULT_LOCK_KEYCODE,
    talk_keycode |-> DEFAULT_TALK_KEYCODE ]

\* Each accessor takes the mutex, reads or writes, and releases it: one
\* atomic step from a state s of AppStateInner to the returned state.
set_locked_carry_over(s, locked) ==
  [s EXCEPT !.is_locked = locked,
            !.lock_start_time = IF locked /\ ~IsSome(s.lock_start_time)
                                THEN Some(0) ELSE s.lock_start_time]

set_locked_keep_start(s, locked) ==
  [s EXCEPT !.is_locked = locked,
            !.lock_start_time = IF locked THEN Some(0) ELSE s.lock_start_time]

set_locked(s, locked) ==
  [s EXCEPT !.is_locked = locked,
            !.lock_start_time = IF locked THEN Some(0) ELSE None]

update_input_time(s) == [s EXCEPT !.last_input_time = 0]

update_key_time(s) == [s EXCEPT !.last_key_time = Some(0)]

append_to_buffer(s, ch) == [s EXCEPT !.input_buffer = Append(s.input_buffer, ch)]

clear_buffer(s) == [s EXCEPT !.input_buffer = << >>]

set_passphrase_hash(s, hash) == [s EXCEPT !.passphrase_hash = Some(hash)]

\* The reset condition without the comparison with the timeout.
should_reset_buffer_at_once(s) == IsSome(s.last_key_time)

should_reset_buffer(s) ==
  IF IsSome(s.last_key_time)
  THEN Unwrap(s.last_key_time) >= s.buffer_reset_timeout
  ELSE FALSE

should_auto_lock(s) ==
  /\ ~s.is_locked
  /\ s.last_input_time >= s.auto_lock_timeout
  /\ s.has_accessibility_permissions

set_talk_key_pressed(s, pressed) == [s EXCEPT !.talk_key_pressed = pressed]

set_auto_unlock_timeout(s, timeout_seconds) ==
  [s EXCEPT !.auto_unlock_timeout = timeout_seconds]

should_auto_unlock_strict(s) ==
  IF ~s.is_locked \/ ~IsSome(s.auto_unlock_timeout) THEN FALSE
  ELSE IF Unwrap(s.auto_unlock_timeout) = 0 THEN FALSE
  ELSE IF ~IsSome(s.lock_start_time) THEN FALSE
  ELSE Unwrap(s.lock_start_time) > Unwrap(s.auto_unlock_timeout)

should_auto_unlock(s) ==
  IF ~s.is_locked \/ ~IsSome(s.auto_unlock_timeout) THEN FALSE
  ELSE IF Unwrap(s.auto_unlock_timeout) = 0 THEN FALSE
  ELSE IF ~IsSome(s.lock_start_time) THEN FALSE
  ELSE Unwrap(s.lock_start_time) >= Unwrap(s.auto_unlock_timeout)

trigger_auto_unlock_stale_idle(s) ==
  IF s.is_locked
  THEN [s EXCEPT !.is_locked = FALSE,
                 !.lock_start_time = None,
                 !.input_buffer = << >>]
  ELSE s

trigger_auto_unlock_keep_start(s) ==
  IF s.is_locked
  THEN [s EXCEPT !.last_input_time = 0,
                 !.is_locked = FALSE,
                 !.input_buffer = << >>]
  ELSE s

trigger_auto_unlock(s) ==
  IF s.is_locked
  THEN [s EXCEPT !.last_input_time = 0,
                 !.is_locked = FALSE,
                 !.lock_start_time = None,
                 !.input_buffer = << >>]
  ELSE s

get_auto_unlock_remaining_secs(s) ==
  IF ~s.is_locked \/ ~IsSome(s.auto_unlock_timeout) THEN None
  ELSE IF ~IsSome(s.lock_start_time) THEN None
  ELSE LET timeout == Unwrap(s.auto_unlock_timeout)
           elapsed == Unwrap(s.lock_start_time)
       IN  Some(IF timeout > elapsed THEN timeout - elapsed ELSE 0)

set_cached_accessibility_permissions(s, has_permissions) ==
  [s EXCEPT !.has_accessibility_permissions = has_permissions]

request_stop_event_tap(s) == [s EXCEPT !.should_stop_event_tap = TRUE]

request_start_event_tap(s) == [s EXCEPT !.should_start_event_tap = TRUE]

request_exit(s) == [s EXCEPT !.should_exit = TRUE]

set_disabled(s, disabled) == [s EXCEPT !.is_disabled = disabled]

\* One second passes: every recorded Instant is one second older.  An
\* Instant is only ever compared with its own timeout, so its elapsed value
\* saturates there.
Older(e, cap) == IF e < cap THEN e + 1 ELSE e
OlderOpt(o, cap) == IF IsSome(o) THEN Some(Older(Unwrap(o), cap)) ELSE None
\* lock_start_time is compared with auto_unlock_timeout; under a timeout of
\* zero it still ages, up to the bound, so that a zero timeout is seen at
\* more than one elapsed time.
LockClockCap(s) ==
  IF ~IsSome(s.auto_unlock_timeout) THEN 0
  ELSE IF Unwrap(s.auto_unlock_timeout) = 0 THEN AutoUnlockTimeout
  ELSE Unwrap(s.auto_unlock_timeout)

Elapse(s) ==
  [s EXCEPT !.last_input_time = Older(s.last_input_time, s.auto_lock_timeout),
            !.last_key_time = OlderOpt(s.last_key_time, s.buffer_reset_timeout),
            !.lock_start_time = OlderOpt(s.lock_start_time, LockClockCap(s))]

\* ------------------------------- Event Classification & Suppression Engine
HotkeyModifiers == {"Control", "Command", "Shift"}

\* A pop that removes the first character.
Pop_first(buffer) == SubSeq(buffer, 2, Len(buffer))

\* String::pop on a non-empty buffer.
Pop(buffer) == SubSeq(buffer, 1, Len(buffer) - 1)

\* The handler without the talk passthrough of the space key.
handle_keyboard_event_no_passthrough(s, event_type, keycode, flags) ==
  IF keycode = 37 /\ HotkeyModifiers \subseteq flags
  THEN [s |-> IF event_type = "KeyDown" /\ ~s.is_locked
              THEN set_locked(s, TRUE) ELSE s,
        block |-> TRUE]
  ELSE IF keycode = 17 /\ HotkeyModifiers \subseteq flags
  THEN [s |-> IF event_type = "KeyDown" THEN set_talk_key_pressed(s, TRUE)
              ELSE IF event_type = "KeyUp" THEN set_talk_key_pressed(s, FALSE)
              ELSE s,
        block |-> TRUE]
  ELSE IF ~s.is_locked
  THEN [s |-> update_input_time(s), block |-> FALSE]
  ELSE IF event_type # "KeyDown"
  THEN [s |-> s, block |-> TRUE]
  ELSE IF keycode = BACKSPACE_KEYCODE
  THEN [s |-> update_key_time(
                IF s.input_buffer # << >>
                THEN [s EXCEPT !.input_buffer = Pop(s.input_buffer)] ELSE s),
        block |-> TRUE]
  ELSE LET ch == keycode_to_char(keycode, "Shift" \in flags)
       IN  IF IsSome(ch)
           THEN LET s1 == update_key_time(append_to_buffer(s, Unwrap(ch)))
                IN  IF /\ IsSome(s1.passphrase_hash)
                       /\ verify_passphrase(s1.input_buffer, Unwrap(s1.passphrase_hash))
                    THEN [s |-> clear_buffer(set_locked(s1, FALSE)), block |-> TRUE]
                    ELSE [s |-> s1, block |-> TRUE]
           ELSE [s |-> s, block |-> TRUE]

\* The whole of handle_keyboard_event on state s: the state it leaves and
\* whether it returns true (block).  The hotkey keycodes are the literals
\* of the source.
handle_keyboard_event_keyup_passes(s, event_type, keycode, flags) ==
  IF keycode = 37 /\ HotkeyModifiers \subseteq flags
  THEN [s |-> IF event_type = "KeyDown" /\ ~s.is_locked
              THEN set_locked(s, TRUE) ELSE s,
        block |-> TRUE]
  ELSE IF keycode = 17 /\ HotkeyModifiers \subseteq flags
  THEN [s |-> IF event_type = "KeyDown" THEN set_talk_key_pressed(s, TRUE)
              ELSE IF event_type = "KeyUp" THEN set_talk_key_pressed(s, FALSE)
              ELSE s,
        block |-> TRUE]
  ELSE IF s.talk_key_pressed /\ keycode = 49
  THEN [s |-> s, block |-> FALSE]
  ELSE IF ~s.is_locked \/ event_type # "KeyDown"
  THEN [s |-> update_input_time(s), block |-> FALSE]
  ELSE IF keycode = BACKSPACE_KEYCODE
  THEN [s |-> update_key_time(
                IF s.input_buffer # << >>
                THEN [s EXCEPT !.input_buffer = Pop(s.input_buffer)] ELSE s),
        block |-> TRUE]
  ELSE LET ch == keycode_to_char(keycode, "Shift" \in flags)
       IN  IF IsSome(ch)
           THEN LET s1 == update_key_time(append_to_buffer(s, Unwrap(ch)))
                IN  IF /\ IsSome(s1.passphrase_hash)
                       /\ verify_passphrase(s1.input_buffer, Unwrap(s1.passphrase_hash))
                    THEN [s |-> clear_buffer(set_locked(s1, FALSE)), block |-> TRUE]
                    ELSE [s |-> s1, block |-> TRUE]
           ELSE [s |-> s, block |-> TRUE]

handle_keyboard_event(s, event_type, keycode, flags) ==
  IF keycode = 37 /\ HotkeyModifiers \subseteq flags
  THEN [s |-> IF event_type = "KeyDown" /\ ~s.is_locked
              THEN set_locked(s, TRUE) ELSE s,
        block |-> TRUE]
  ELSE IF keycode = 17 /\ HotkeyModifiers \subseteq flags
  THEN [s |-> IF event_type = "KeyDown" THEN set_talk_key_pressed(s, TRUE)
              ELSE IF event_type = "KeyUp" THEN set_talk_key_pressed(s, FALSE)
              ELSE s,
        block |-> TRUE]
  ELSE IF s.talk_key_pressed /\ keycode = 49
  THEN [s |-> s, block |-> FALSE]
  ELSE IF ~s.is_locked
  THEN [s |-> update_input_time(s), block |-> FALSE]
  ELSE IF event_type # "KeyDown"
  THEN [s |-> s, block |-> TRUE]
  ELSE IF keycode = BACKSPACE_KEYCODE
  THEN [s |-> update_key_time(
                IF s.input_buffer # << >>
                THEN [s EXCEPT !.input_buffer = Pop(s.input_buffer)] ELSE s),
        block |-> TRUE]
  ELSE LET ch == keycode_to_char(keycode, "Shift" \in flags)
       IN  IF IsSome(ch)
           THEN LET s1 == update_key_time(append_to_buffer(s, Unwrap(ch)))
                IN  IF /\ IsSome(s1.passphrase_hash)
                       /\ verify_passphrase(s1.input_buffer, Unwrap(s1.passphrase_hash))
                    THEN [s |-> clear_buffer(set_locked(s1, FALSE)), block |-> TRUE]
                    ELSE [s |-> s1, block |-> TRUE]
           ELSE [s |-> s, block |-> TRUE]

\* handle_mouse_event: refresh the idle clock, block.
handle_mouse_event(s) == [s |-> update_input_time(s), block |-> TRUE]

\* The pointer arms of event_tap_callback; any other event type falls to
\* the default arm and passes with the state untouched.
pointer_event(s, event_type) ==
  IF event_type = "MouseMoved"
  THEN [s |-> update_input_time(s), block |-> FALSE]
  ELSE IF event_type \in {"LeftMouseDown", "LeftMouseUp", "RightMouseDown",
                          "RightMouseUp", "ScrollWheel"}
  THEN IF s.is_locked THEN handle_mouse_event(s)
       ELSE [s |-> update_input_time(s), block |-> FALSE]
  ELSE IF event_type \in {"LeftMouseDragged", "RightMouseDragged",
                          "OtherMouseDragged"}
  THEN [s |-> update_input_time(s), block |-> s.is_locked]
  ELSE [s |-> s, block |-> FALSE]

\* The event types create_event_tap asks the OS to deliver to the callback.
event_mask ==
  {"KeyDown", "KeyUp", "MouseMoved", "LeftMouseDown", "LeftMouseUp",
   "LeftMouseDragged", "RightMouseDown", "RightMouseUp", "RightMouseDragged",
   "OtherMouseDragged", "ScrollWheel"}

\* ------------------------------------------------------ Session Controller
\* A controller state w is [inner: AppStateInner, core: the handles that
\* HandsOffCore owns, res: the Result of the last call].
HandsOffCore_new(passphrase) ==
  [ inner |-> set_passphrase_hash(AppState_new, hash_passphrase(passphrase)),
    core |-> [event_tap |-> FALSE, hotkeys |-> FALSE, live_taps |-> 0],
    res |-> "Ok" ]

lock_unchecked(w) ==
  [w EXCEPT !.inner = set_locked(w.inner, TRUE), !.res = "Ok"]

lock(w) ==
  IF ~w.inner.has_accessibility_permissions
  THEN [w EXCEPT !.res = "Err"]
  ELSE [w EXCEPT !.inner = set_locked(w.inner, TRUE), !.res = "Ok"]

unlock_always(w, passphrase) ==
  [w EXCEPT !.inner = set_locked(w.inner, FALSE), !.res = "Ok(true)"]

unlock(w, passphrase) ==
  IF Some(hash_passphrase(passphrase)) = w.inner.passphrase_hash
  THEN [w EXCEPT !.inner = set_locked(w.inner, FALSE), !.res = "Ok(true)"]
  ELSE [w EXCEPT !.res = "Ok(false)"]

\* create_event_tap yields a handle only while the OS grants the permission.
\* core.event_tap: the controller holds a handle (event_tap and
\* run_loop_source are Some).  core.live_taps: TAPS_CREATED - TAPS_DESTROYED.
\* create_event_tap fails when the permission is missing; on success the
\* new handle overwrites the one held.
start_event_tap(w, os_perm) ==
  IF os_perm
  THEN [w EXCEPT !.core.event_tap = TRUE,
                 !.core.live_taps = @ + 1,
                 !.res = "Ok"]
  ELSE [w EXCEPT !.res = "Err"]

stop_event_tap(w) ==
  IF w.core.event_tap
  THEN [w EXCEPT !.core.event_tap = FALSE, !.core.live_taps = @ - 1]
  ELSE w

restart_event_tap_no_stop(w, os_perm) ==
  IF ~os_perm THEN [w EXCEPT !.res = "Err"]
  ELSE start_event_tap(w, os_perm)

restart_event_tap(w, os_perm) ==
  LET w1 == IF w.core.event_tap THEN stop_event_tap(w) ELSE w
  IN  IF ~os_perm THEN [w1 EXCEPT !.res = "Err"]
      ELSE start_event_tap(w1, os_perm)

start_hotkeys(w) == [w EXCEPT !.core.hotkeys = TRUE, !.res = "Ok"]

disable(w) ==
  LET w1 == stop_event_tap([w EXCEPT !.inner = set_disabled(w.inner, TRUE)])
  IN  [w1 EXCEPT !.core.hotkeys = FALSE,
                 !.inner = clear_buffer(w1.inner),
                 !.res = "Ok"]

\* enable() without the refresh of the idle clock.
enable_no_refresh(w, os_perm) ==
  LET w1 == restart_event_tap(w, os_perm)
  IN  IF w1.res = "Err" THEN w1
      ELSE LET w2 == start_hotkeys(w1)
           IN  [w2 EXCEPT !.inner = set_disabled(w2.inner, FALSE), !.res = "Ok"]

enable(w, os_perm) ==
  LET w1 == restart_event_tap([w EXCEPT !.inner = update_input_time(w.inner)], os_perm)
  IN  IF w1.res = "Err" THEN w1
      ELSE LET w2 == start_hotkeys(w1)
           IN  [w2 EXCEPT !.inner = set_disabled(w2.inner, FALSE), !.res = "Ok"]

\* ------------------------------------------------------- tray front-end
handle_lock_toggle(w) == lock(w)

handle_disable(w) == disable(w)

handle_reset(w, passphrase, os_perm) ==
  LET is_disabled == w.inner.is_disabled
      w1 == IF w.inner.is_locked THEN unlock(w, passphrase) ELSE w
  IN  IF w.inner.is_locked /\ w1.res # "Ok(true)" THEN w1
      ELSE IF is_disabled THEN enable(w1, os_perm)
      ELSE restart_event_tap(w1, os_perm)

\* should_stop_event_tap_and_clear / should_start_event_tap_and_clear.
clear_stop_flag(s) == [s EXCEPT !.should_stop_event_tap = FALSE]
clear_start_flag(s) == [s EXCEPT !.should_start_event_tap = FALSE]

\* The iteration with the start request handled before the stop request.
tray_iteration_start_first(w, pending, passphrase, os_perm) ==
  LET w0 == [w EXCEPT !.res = "none"]
      w1 == IF pending = "lock" THEN handle_lock_toggle(w0)
            ELSE IF pending = "disable" THEN handle_disable(w0)
            ELSE IF pending = "reset" THEN handle_reset(w0, passphrase, os_perm)
            ELSE w0
      w2 == IF w1.inner.should_start_event_tap
            THEN restart_event_tap([w1 EXCEPT !.inner = clear_start_flag(w1.inner)],
                                   os_perm)
            ELSE w1
      w3 == IF w2.inner.should_stop_event_tap
            THEN stop_event_tap([w2 EXCEPT !.inner = clear_stop_flag(w2.inner)])
            ELSE w2
  IN  [w3 EXCEPT !.res = w1.res]

\* One iteration of the tray event loop: the pending menu event, the stop
\* request, the start request; returns the controller state with res the
\* result of the menu command ("none" when there was none).
tray_iteration(w, pending, passphrase, os_perm) ==
  LET w0 == [w EXCEPT !.res = "none"]
      w1 == IF pending = "lock" THEN handle_lock_toggle(w0)
            ELSE IF pending = "disable" THEN handle_disable(w0)
            ELSE IF pending = "reset" THEN handle_reset(w0, passphrase, os_perm)
            ELSE w0
      w2 == IF w1.inner.should_stop_event_tap
            THEN stop_event_tap([w1 EXCEPT !.inner = clear_stop_flag(w1.inner)])
            ELSE w1
      w3 == IF w2.inner.should_start_event_tap
            THEN restart_event_tap([w2 EXCEPT !.inner = clear_start_flag(w2.inner)],
                                   os_perm)
            ELSE w2
  IN  [w3 EXCEPT !.res = w1.res]

\* The enabled state the loop gives the Lock and the Disable menu items.
should_enable_lock(s) ==
  s.has_accessibility_permissions /\ ~s.is_locked /\ ~s.is_disabled

\* --------------------------------------------------- permission monitor
\* The monitor's first check, before its loop.
permission_monitor_start(s, has_permissions) ==
  LET s1 == set_cached_accessibility_permissions(s, has_permissions)
  IN  IF ~has_permissions
      THEN request_stop_event_tap(IF s1.is_locked THEN set_locked(s1, FALSE) ELSE s1)
      ELSE s1

\* One pass of the monitor's loop body (after the disabled check).
permission_monitor_poll(s, last_permission_state, has_permissions) ==
  LET s1 == IF last_permission_state /\ ~has_permissions
            THEN request_stop_event_tap(
                   IF s.is_locked THEN set_locked(s, FALSE) ELSE s)
            ELSE IF ~last_permission_state /\ has_permissions
            THEN request_start_event_tap(s)
            ELSE s
  IN  set_cached_accessibility_permissions(s1, has_permissions)

\* ------------------------------------------------------------------ state
VARIABLES
  inner,          \* AppStateInner behind the mutex
  core,           \* HandsOffCore's handles: event_tap held, hotkeys registered
  os_permission,  \* what check_accessibility_permissions() returns now
  pm,             \* permission monitor thread: pc, last_permission_state
  frontend,       \* "tray" or "cli"
  menu,           \* tray menu: queued MenuEvent, enabled state of the items
  callback,       \* handle_keyboard_event in flight: next critical section, ch
  auto_lock_pc,   \* auto-lock thread: "sleep", or "set_locked" after its check
  timer_obs,      \* observer clocks: seconds since the lock transition, ...
  tap_os,         \* the tap as the OS has it: disabled, sentinel to deliver,
                  \* and the re-enable request
  workers,        \* the state mutex's holder and the threads of the
                  \* thread-safety tests: position in the call, calls left
  keyboard,       \* the keys physically held: the talk key, the modifiers
  last            \* the operation that produced the state, with its result

vars == << inner, core, os_permission, pm, frontend, menu, callback,
          auto_lock_pc, timer_obs, tap_os, workers, keyboard,
          last >>

\* The history variable: the operation that produced the state, when it is
\* one of the kinds tr that the specification traces, else Untraced.
Untraced == [op |-> "other", arg |-> << >>, res |-> "none"]
Op(tr, op, arg, res) ==
  IF op \in tr THEN [op |-> op, arg |-> arg, res |-> res] ELSE Untraced

\* The key events the environment sends: the talk key plain ('t') and with
\* the hotkey modifiers, the lock key with the hotkey modifiers, space,
\* backspace and escape (53, which the classifier does not know).
KeyEvents ==
  { <<"KeyDown", k, {}>> : k \in {DEFAULT_TALK_KEYCODE, SPACE_KEYCODE,
                                  BACKSPACE_KEYCODE, 53} }
  \cup { <<"KeyUp", k, {}>> : k \in {SPACE_KEYCODE, 53} }
  \cup { <<t, k, HotkeyModifiers>> : t \in {"KeyDown", "KeyUp"},
                                     k \in {DEFAULT_TALK_KEYCODE, DEFAULT_LOCK_KEYCODE} }

\* The engine's specification also types 'l' and a shifted 'T'.
EngineKeyEvents ==
  KeyEvents \cup { <<"KeyDown", DEFAULT_LOCK_KEYCODE, {}>>,
                   <<"KeyDown", DEFAULT_TALK_KEYCODE, {"Shift"}>> }

PointerEvents == {"MouseMoved", "LeftMouseDown", "LeftMouseDragged"}

AutoUnlockChoices == {None, Some(AutoUnlockTimeout)}

CallbackIdle == [pc |-> "idle", ch |-> ""]

\* The threads of the thread-safety tests: two append to the buffer and two
\* set the lock state, one to true and one to false.
Workers == 1..4

\* The calls each test thread makes.
CallsPerWorker == 2

\* No thread holds the mutex, every thread is before its first call.
WorkersStart ==
  [holder |-> 0,
   pc |-> [t \in Workers |-> 1],
   todo |-> [t \in Workers |-> CallsPerWorker]]

\* No key is held.
KeysUp == [talk_down |-> FALSE, modifiers |-> {}]

\* A tap the OS has not disabled, no sentinel event queued for the
\* callback, no re-enable requested.
TapEnabled == [disabled |-> FALSE, sentinel |-> "none", should_reenable |-> FALSE]

\* Observer clocks, kept by SpecTimer only: seconds since the last
\* unlocked-to-locked transition, seconds since the last auto-unlock, and
\* the number of unlocked-to-locked transitions so far.
NoObservation == [since_lock |-> None, since_auto_unlock |-> None, locks |-> 0]

\* The state once main() has configured and started the core: the tray
\* starts unlocked, the CLI unlocked or (--locked) locked.
Init ==
  \E fe \in {"tray", "cli"}, locked \in BOOLEAN, au \in AutoUnlockChoices :
    /\ locked => fe = "cli"
    /\ LET w0 == HandsOffCore_new(Passphrase)
           s1 == set_auto_unlock_timeout(w0.inner, au)
           s2 == [s1 EXCEPT !.auto_lock_timeout = AutoLockTimeout,
                            !.buffer_reset_timeout = BufferResetTimeout]
           s3 == IF locked THEN set_locked(s2, TRUE) ELSE s2
           w1 == start_hotkeys(start_event_tap([w0 EXCEPT !.inner = s3], TRUE))
       IN  /\ inner = w1.inner
           /\ core = w1.core
    /\ os_permission = TRUE
    /\ pm = [pc |-> "start", last_permission_state |-> FALSE]
    /\ frontend = fe
    /\ menu = [pending |-> "none", lock_enabled |-> TRUE, disable_enabled |-> TRUE]
    /\ callback = CallbackIdle
    /\ auto_lock_pc = "sleep"
    /\ timer_obs = NoObservation
    /\ tap_os = TapEnabled
    /\ workers = WorkersStart
    /\ keyboard = KeysUp
    /\ last = Untraced

\* ---------------------------------------------------------------- actions
\* One second passes.
Tick(tr) ==
  /\ inner' = Elapse(inner)
  /\ last' = Op(tr, "tick", << >>, "none")
  /\ UNCHANGED << core, os_permission, pm, frontend, menu, callback, auto_lock_pc, timer_obs, tap_os, workers, keyboard >>

\* The user grants or revokes the accessibility permission.
OsPermissionChange(tr) ==
  /\ os_permission' = ~os_permission
  /\ last' = Op(tr, "os_permission", << >>, "none")
  /\ UNCHANGED << inner, core, pm, frontend, menu, callback, auto_lock_pc, timer_obs, tap_os, workers, keyboard >>

\* The event tap delivers a key event to event_tap_callback.
KeyEvent(tr, events) ==
  \E e \in events :
    /\ core.event_tap
    /\ ~tap_os.disabled
    /\ callback = CallbackIdle
    /\ Len(inner.input_buffer) < MaxBuffer
    /\ LET r == handle_keyboard_event(inner, e[1], e[2], e[3])
       IN  /\ inner' = r.s
           /\ last' = Op(tr, "key", e, IF r.block THEN "block" ELSE "pass")
    /\ UNCHANGED << core, os_permission, pm, frontend, menu, callback, auto_lock_pc, timer_obs, tap_os, workers, keyboard >>

\* The event tap delivers a pointer event to event_tap_callback.
PointerEvent(tr) ==
  \E e \in PointerEvents :
    /\ core.event_tap
    /\ ~tap_os.disabled
    /\ callback = CallbackIdle
    /\ LET r == pointer_event(inner, e)
       IN  /\ inner' = r.s
           /\ last' = Op(tr, "pointer", <<e>>, IF r.block THEN "block" ELSE "pass")
    /\ UNCHANGED << core, os_permission, pm, frontend, menu, callback, auto_lock_pc, timer_obs, tap_os, workers, keyboard >>

\* One pass of the buffer-reset supervisor.
BufferResetTick(tr) ==
  /\ inner' = IF /\ ~inner.is_disabled
                 /\ should_reset_buffer(inner)
                 /\ inner.input_buffer # << >>
              THEN clear_buffer(inner) ELSE inner
  /\ last' = Op(tr, "buffer_reset", << >>, "none")
  /\ UNCHANGED << core, os_permission, pm, frontend, menu, callback, auto_lock_pc, timer_obs, tap_os, workers, keyboard >>

\* One pass of the inactivity auto-lock supervisor.
AutoLockTick(tr) ==
  /\ inner' = IF ~inner.is_disabled /\ should_auto_lock(inner)
              THEN set_locked(inner, TRUE) ELSE inner
  /\ last' = Op(tr, "auto_lock", << >>, "none")
  /\ UNCHANGED << core, os_permission, pm, frontend, menu, callback, auto_lock_pc, timer_obs, tap_os, workers, keyboard >>

\* One pass of the safety auto-unlock supervisor; start_background_threads
\* spawns it only when a timeout is configured.
AutoUnlockTick(tr) ==
  /\ IsSome(inner.auto_unlock_timeout)
  /\ inner' = IF ~inner.is_disabled /\ should_auto_unlock(inner)
              THEN trigger_auto_unlock(inner) ELSE inner
  /\ last' = Op(tr, "auto_unlock", << >>, "none")
  /\ UNCHANGED << core, os_permission, pm, frontend, menu, callback, auto_lock_pc, timer_obs, tap_os, workers, keyboard >>

\* The listener locking without looking at is_locked.
HotkeyListener_relocks(tr) ==
  \E id \in {"lock", "talk"} :
    /\ core.hotkeys
    /\ inner' = IF ~inner.is_disabled /\ id = "lock"
                THEN set_locked(inner, TRUE) ELSE inner
    /\ last' = Op(tr, "hotkey", <<id>>, "none")
    /\ UNCHANGED << core, os_permission, pm, frontend, menu, callback, auto_lock_pc, timer_obs, tap_os, workers, keyboard >>

\* The global hotkey listener receives a registered shortcut.
HotkeyListener(tr) ==
  \E id \in {"lock", "talk"} :
    /\ core.hotkeys
    /\ inner' = IF ~inner.is_disabled /\ id = "lock" /\ ~inner.is_locked
                THEN set_locked(inner, TRUE) ELSE inner
    /\ last' = Op(tr, "hotkey", <<id>>, "none")
    /\ UNCHANGED << core, os_permission, pm, frontend, menu, callback, auto_lock_pc, timer_obs, tap_os, workers, keyboard >>

\* The permission monitor: its first check, then one pass of its loop.
PermissionMonitor(tr) ==
  /\ IF pm.pc = "start"
     THEN /\ inner' = permission_monitor_start(inner, os_permission)
          /\ pm' = [pc |-> "loop", last_permission_state |-> os_permission]
     ELSE IF inner.is_disabled
     THEN UNCHANGED << inner, pm >>
     ELSE /\ inner' = permission_monitor_poll(inner, pm.last_permission_state,
                                              os_permission)
          /\ pm' = [pm EXCEPT !.last_permission_state = os_permission]
  /\ last' = Op(tr, "permission_monitor", << >>,
                IF pm.pc = "loop" /\ ~inner.is_disabled
                   /\ pm.last_permission_state /\ ~os_permission
                THEN "revoked" ELSE "none")
  /\ UNCHANGED << core, os_permission, frontend, menu, callback, auto_lock_pc, timer_obs, tap_os, workers, keyboard >>

\* The user clicks an enabled tray menu item; the click reaches the menu
\* only if the tap does not suppress it, and refreshes the idle clock when
\* it goes through the tap.
MenuClick(tr) ==
  \E item \in {"lock", "disable", "reset"} :
    /\ frontend = "tray"
    /\ menu.pending = "none"
    /\ item = "lock" => menu.lock_enabled
    /\ item = "disable" => menu.disable_enabled
    /\ ~(core.event_tap /\ inner.is_locked)
    /\ menu' = [menu EXCEPT !.pending = item]
    /\ inner' = IF core.event_tap THEN update_input_time(inner) ELSE inner
    /\ last' = Op(tr, "click", <<item>>, "none")
    /\ UNCHANGED << core, os_permission, pm, frontend, callback, auto_lock_pc, timer_obs, tap_os, workers, keyboard >>

\* One iteration of the tray event loop.
TrayLoop(tr) ==
  /\ frontend = "tray"
  /\ LET w == tray_iteration([inner |-> inner, core |-> core, res |-> "none"],
                             menu.pending, Passphrase, os_permission)
     IN  /\ inner' = w.inner
         /\ core' = w.core
         /\ menu' = [pending |-> "none",
                     lock_enabled |-> should_enable_lock(w.inner),
                     disable_enabled |-> should_enable_lock(w.inner)]
         /\ last' = Op(tr, "tray",
                       IF inner.is_disabled THEN <<menu.pending, "disabled">>
                       ELSE <<menu.pending>>,
                       w.res)
  /\ UNCHANGED << os_permission, pm, frontend, callback, auto_lock_pc, timer_obs, tap_os, workers, keyboard >>

Next(tr) ==
  \/ Tick(tr)
  \/ OsPermissionChange(tr)
  \/ KeyEvent(tr, KeyEvents)
  \/ PointerEvent(tr)
  \/ BufferResetTick(tr)
  \/ AutoLockTick(tr)
  \/ AutoUnlockTick(tr)
  \/ HotkeyListener(tr)
  \/ PermissionMonitor(tr)
  \/ MenuClick(tr)
  \/ TrayLoop(tr)

\* The operations each specification traces in the history variable.
ControlOps == {"tray", "permission_monitor"}
EngineOps == {"key", "pointer"}

NextControl == Next(ControlOps)

\* The whole system, tracing the controller and the permission monitor.
Spec == Init /\ [][NextControl]_vars

\* The engine with the supervisors and the hotkey listener, tracing the
\* engine's events, while the permission stays granted and the front-end
\* issues no command.
NextEngine ==
  \/ Tick(EngineOps)
  \/ KeyEvent(EngineOps, EngineKeyEvents)
  \/ PointerEvent(EngineOps)
  \/ BufferResetTick(EngineOps)
  \/ AutoLockTick(EngineOps)
  \/ AutoUnlockTick(EngineOps)
  \/ HotkeyListener(EngineOps)
  \/ PermissionMonitor(EngineOps)

SpecEngine == Init /\ [][NextEngine]_vars

\* ------------------------------------- the callback, section by section
\* handle_keyboard_event takes the mutex once per accessor call.  The event
\* goes on to append_to_buffer when the reads up to is_locked() send it
\* there: not a hotkey, no talk-key passthrough, locked, a key-down other
\* than backspace, and a keycode keycode_to_char knows.
reaches_append(s, event_type, keycode, flags) ==
  /\ ~(keycode = 37 /\ HotkeyModifiers \subseteq flags)
  /\ ~(keycode = 17 /\ HotkeyModifiers \subseteq flags)
  /\ ~(s.talk_key_pressed /\ keycode = 49)
  /\ s.is_locked
  /\ event_type = "KeyDown"
  /\ keycode # 51
  /\ IsSome(keycode_to_char(keycode, "Shift" \in flags))

\* The callback receives a key event and runs up to the append; an event
\* that is not appended is handled in this one step.
CallbackEnter(tr, events) ==
  \E e \in events :
    /\ core.event_tap
    /\ ~tap_os.disabled
    /\ callback = CallbackIdle
    /\ Len(inner.input_buffer) < MaxBuffer
    /\ IF reaches_append(inner, e[1], e[2], e[3])
       THEN /\ callback' = [pc |-> "append",
                            ch |-> Unwrap(keycode_to_char(e[2], "Shift" \in e[3]))]
            /\ UNCHANGED inner
       ELSE /\ inner' = handle_keyboard_event(inner, e[1], e[2], e[3]).s
            /\ UNCHANGED callback
    /\ last' = Op(tr, "callback", << >>, "none")
    /\ UNCHANGED << core, os_permission, pm, frontend, menu, auto_lock_pc, timer_obs, tap_os, workers, keyboard >>

\* state.append_to_buffer(ch); state.update_key_time();
CallbackAppend(tr) ==
  /\ callback.pc = "append"
  /\ inner' = update_key_time(append_to_buffer(inner, callback.ch))
  /\ callback' = [pc |-> "verify", ch |-> ""]
  /\ last' = Op(tr, "callback", << >>, "none")
  /\ UNCHANGED << core, os_permission, pm, frontend, menu, auto_lock_pc, timer_obs, tap_os, workers, keyboard >>

\* get_passphrase_hash(), get_buffer(), verify_passphrase(&buffer, &hash)
CallbackVerify(tr) ==
  /\ callback.pc = "verify"
  /\ callback' = IF /\ IsSome(inner.passphrase_hash)
                    /\ verify_passphrase(inner.input_buffer,
                                         Unwrap(inner.passphrase_hash))
                 THEN [pc |-> "set_locked", ch |-> ""]
                 ELSE CallbackIdle
  /\ last' = Op(tr, "callback", << >>, "none")
  /\ UNCHANGED << inner, core, os_permission, pm, frontend, menu, auto_lock_pc, timer_obs, tap_os, workers, keyboard >>

\* state.set_locked(false);
CallbackSetLocked(tr) ==
  /\ callback.pc = "set_locked"
  /\ inner' = set_locked(inner, FALSE)
  /\ callback' = [pc |-> "clear_buffer", ch |-> ""]
  /\ last' = Op(tr, "callback", << >>, "none")
  /\ UNCHANGED << core, os_permission, pm, frontend, menu, auto_lock_pc, timer_obs, tap_os, workers, keyboard >>

\* state.clear_buffer(); return true
CallbackClear(tr) ==
  /\ callback.pc = "clear_buffer"
  /\ inner' = clear_buffer(inner)
  /\ callback' = CallbackIdle
  /\ last' = Op(tr, "callback", << >>, "none")
  /\ UNCHANGED << core, os_permission, pm, frontend, menu, auto_lock_pc, timer_obs, tap_os, workers, keyboard >>

\* Another thread holding the core calls unlock() with the passphrase.
ControllerUnlock(tr) ==
  /\ LET w == unlock([inner |-> inner, core |-> core, res |-> "none"], Passphrase)
     IN  inner' = w.inner
  /\ last' = Op(tr, "unlock", << >>, "none")
  /\ UNCHANGED << core, os_permission, pm, frontend, menu, callback, auto_lock_pc, timer_obs, tap_os, workers, keyboard >>

ConcOps == {}

NextConc ==
  \/ Tick(ConcOps)
  \/ OsPermissionChange(ConcOps)
  \/ CallbackEnter(ConcOps, KeyEvents)
  \/ CallbackAppend(ConcOps)
  \/ CallbackVerify(ConcOps)
  \/ CallbackSetLocked(ConcOps)
  \/ CallbackClear(ConcOps)
  \/ AutoLockTick(ConcOps)
  \/ AutoUnlockTick(ConcOps)
  \/ HotkeyListener(ConcOps)
  \/ PermissionMonitor(ConcOps)
  \/ ControllerUnlock(ConcOps)

\* The callback's critical sections interleaved with the supervisors, the
\* hotkey listener, the permission monitor and a controller unlock.
SpecConc == Init /\ [][NextConc]_vars

\* -------------------------------------------- the timers of AppState alone
\* AppState as its own tests drive it: set_locked called directly, input
\* arriving while unlocked, the auto-unlock thread, and the auto-lock thread
\* with its check and its set_locked as two critical sections.  No second
\* passes between two consecutive statements of a thread.
AutoUnlockChoicesWithZero == {None, Some(0), Some(AutoUnlockTimeout)}

InitTimer ==
  \E au \in AutoUnlockChoicesWithZero, checked \in BOOLEAN :
    /\ LET w0 == HandsOffCore_new(Passphrase)
           s0 == set_auto_unlock_timeout(w0.inner, au)
           \* The permission monitor's initial check has run, or not yet.
           s1 == set_cached_accessibility_permissions(s0, checked)
       IN  /\ inner = [s1 EXCEPT !.auto_lock_timeout = AutoLockTimeout,
                                 !.buffer_reset_timeout = BufferResetTimeout]
           /\ core = w0.core
    /\ os_permission = TRUE
    /\ pm = [pc |-> "start", last_permission_state |-> FALSE]
    /\ frontend = "cli"
    /\ menu = [pending |-> "none", lock_enabled |-> TRUE, disable_enabled |-> TRUE]
    /\ callback = CallbackIdle
    /\ auto_lock_pc = "sleep"
    /\ timer_obs = NoObservation
    /\ tap_os = TapEnabled
    /\ workers = WorkersStart
    /\ keyboard = KeysUp
    /\ last = Untraced

\* The observer clocks after a step from state s to state s2.
Observe(s, s2, obs, auto_unlocked) ==
  [ since_lock |-> IF ~s2.is_locked THEN None
                   ELSE IF ~s.is_locked THEN Some(0)
                   ELSE obs.since_lock,
    since_auto_unlock |-> IF auto_unlocked THEN Some(0) ELSE obs.since_auto_unlock,
    locks |-> IF ~s.is_locked /\ s2.is_locked /\ obs.locks < MaxLockCycles
              THEN obs.locks + 1 ELSE obs.locks ]

TimerOps == {"set_locked", "auto_unlock", "auto_lock"}

TimerTick ==
  /\ auto_lock_pc = "sleep"
  /\ inner' = Elapse(inner)
  /\ timer_obs' = [timer_obs EXCEPT
                     !.since_lock = OlderOpt(@, AutoUnlockTimeout),
                     !.since_auto_unlock = OlderOpt(@, inner.auto_lock_timeout)]
  /\ last' = Op(TimerOps, "tick", << >>, "none")
  /\ UNCHANGED << core, os_permission, pm, frontend, menu, callback, auto_lock_pc, tap_os, workers, keyboard >>

\* state.set_locked(locked), from any caller.
TimerSetLocked ==
  \E locked \in BOOLEAN :
    /\ inner' = set_locked(inner, locked)
    /\ timer_obs' = Observe(inner, inner', timer_obs, FALSE)
    /\ last' = Op(TimerOps, "set_locked", <<locked>>, "none")
    /\ UNCHANGED << core, os_permission, pm, frontend, menu, callback, auto_lock_pc, tap_os, workers, keyboard >>

\* An input event while unlocked: update_input_time().
TimerInput ==
  /\ ~inner.is_locked
  /\ inner' = update_input_time(inner)
  /\ last' = Op(TimerOps, "input", << >>, "none")
  /\ UNCHANGED << core, os_permission, pm, frontend, menu, callback,
                  auto_lock_pc, timer_obs, tap_os, workers, keyboard >>

\* One pass of the auto-unlock thread's loop.
TimerAutoUnlock ==
  /\ IsSome(inner.auto_unlock_timeout)
  /\ LET fires == ~inner.is_disabled /\ should_auto_unlock(inner)
     IN  /\ inner' = IF fires THEN trigger_auto_unlock(inner) ELSE inner
         /\ timer_obs' = Observe(inner, inner', timer_obs, fires)
         /\ last' = Op(TimerOps, "auto_unlock", << >>,
                       IF fires THEN "fired" ELSE "none")
  /\ UNCHANGED << core, os_permission, pm, frontend, menu, callback, auto_lock_pc, tap_os, workers, keyboard >>

\* The auto-lock thread wakes and evaluates should_auto_lock().
TimerAutoLockCheck ==
  /\ auto_lock_pc = "sleep"
  /\ auto_lock_pc' = IF ~inner.is_disabled /\ should_auto_lock(inner)
                     THEN "set_locked" ELSE "sleep"
  /\ last' = Op(TimerOps, "auto_lock_check", << >>, "none")
  /\ UNCHANGED << inner, core, os_permission, pm, frontend, menu, callback,
                  timer_obs, tap_os, workers, keyboard >>

\* The auto-lock thread, its check having been true: state.set_locked(true).
TimerAutoLockSet ==
  /\ auto_lock_pc = "set_locked"
  /\ inner' = set_locked(inner, TRUE)
  /\ auto_lock_pc' = "sleep"
  /\ timer_obs' = Observe(inner, inner', timer_obs, FALSE)
  /\ last' = Op(TimerOps, "auto_lock", << >>, "none")
  /\ UNCHANGED << core, os_permission, pm, frontend, menu, callback, tap_os, workers, keyboard >>

NextTimer ==
  \/ TimerTick
  \/ TimerSetLocked
  \/ TimerInput
  \/ TimerAutoUnlock
  \/ TimerAutoLockCheck
  \/ TimerAutoLockSet

SpecTimer == InitTimer /\ [][NextTimer]_vars

\* ------------------------------------------- the controller's command API
\* HandsOffCore's public methods called in any order by the code that owns
\* the core, while the permission changes and the monitor keeps its cache.
Candidates == { Passphrase, << >>, <<"t">>, <<" ", "t">> }

CtlOps == {"lock", "unlock", "start_event_tap", "stop_event_tap",
           "restart_event_tap", "enable", "disable"}

\* The call's effect on the controller state w.
ctl_call(w, op, candidate, os_perm) ==
  IF op = "lock" THEN lock(w)
  ELSE IF op = "unlock" THEN unlock(w, candidate)
  ELSE IF op = "start_event_tap" THEN start_event_tap(w, os_perm)
  ELSE IF op = "stop_event_tap" THEN [stop_event_tap(w) EXCEPT !.res = "none"]
  ELSE IF op = "restart_event_tap" THEN restart_event_tap(w, os_perm)
  ELSE IF op = "enable" THEN enable(w, os_perm)
  ELSE disable(w)

ControllerCall(op) ==
  \E candidate \in (IF op = "unlock" THEN Candidates ELSE {<< >>}) :
    /\ op = "start_event_tap" => core.live_taps < MaxLiveTaps
    /\ LET w == ctl_call([inner |-> inner, core |-> core, res |-> "none"],
                         op, candidate, os_permission)
       IN  /\ inner' = w.inner
           /\ core' = w.core
           /\ last' = Op(CtlOps, op,
                         <<candidate, last.op = "unlock" /\ last.res = "Ok(false)">>,
                         w.res)
    /\ UNCHANGED << os_permission, pm, frontend, menu, callback,
                    auto_lock_pc, timer_obs, tap_os, workers, keyboard >>

NextController ==
  \/ ControllerCall("lock")
  \/ ControllerCall("unlock")
  \/ ControllerCall("start_event_tap")
  \/ ControllerCall("stop_event_tap")
  \/ ControllerCall("restart_event_tap")
  \/ ControllerCall("enable")
  \/ ControllerCall("disable")
  \/ OsPermissionChange(CtlOps)
  \/ PermissionMonitor(CtlOps)
  \/ KeyEvent(CtlOps, KeyEvents)

SpecController == Init /\ [][NextController]_vars

\* ------------------------------------------- the tap disabled by the OS
\* SpecTap: the OS disables the tap and sends the callback a sentinel event;
\* the permission monitor and the tray loop run beside it.  The callback,
\* the front-end loop and the monitor are scheduled again and again, hence
\* the weak fairness.

\* The sentinel event types the OS sends when it has disabled the tap.
K_CGEVENT_TAP_DISABLED_BY_TIMEOUT == "TapDisabledByTimeout"
K_CGEVENT_TAP_DISABLED_BY_USER_INPUT == "TapDisabledByUserInput"

\* The session state's re-enable request.
request_reenable_event_tap(t) == [t EXCEPT !.should_reenable = TRUE]

\* Test-and-clear of the re-enable request.
clear_reenable_flag(t) == [t EXCEPT !.should_reenable = FALSE]

\* CGEventTapEnable(tap, true) on the handle that is held.
reenable_existing_tap(t) == [t EXCEPT !.disabled = FALSE]

\* The callback's sentinel branch with the timeout handled like a revoked
\* permission.
tap_disabled_event_timeout_stops(st, event_type) ==
  [st EXCEPT !.inner = request_exit(request_stop_event_tap(st.inner))]

\* The callback's branch for the sentinel events; st holds the session
\* state (inner) and the re-enable request (tap_os).
tap_disabled_event(st, event_type) ==
  IF event_type = K_CGEVENT_TAP_DISABLED_BY_USER_INPUT
  THEN [st EXCEPT !.inner = request_exit(request_stop_event_tap(st.inner))]
  ELSE [st EXCEPT !.tap_os = request_reenable_event_tap(st.tap_os)]

TapOps == {"sentinel", "reenable", "tray", "permission_monitor"}

\* The OS disables the tap that is installed: after a slow callback or a
\* sleep/wake at any time, for a revoked permission once it is revoked.
OsDisablesTap ==
  \E event_type \in {K_CGEVENT_TAP_DISABLED_BY_TIMEOUT,
                     K_CGEVENT_TAP_DISABLED_BY_USER_INPUT} :
    /\ core.event_tap
    /\ ~tap_os.disabled
    /\ tap_os.sentinel = "none"
    /\ event_type = K_CGEVENT_TAP_DISABLED_BY_USER_INPUT => ~os_permission
    /\ tap_os' = [tap_os EXCEPT !.disabled = TRUE, !.sentinel = event_type]
    /\ last' = Op(TapOps, "os_disables_tap", <<event_type>>, "none")
    /\ UNCHANGED << inner, core, os_permission, pm, frontend, menu, callback,
                    auto_lock_pc, timer_obs, workers, keyboard >>

\* The callback receives the sentinel event.
SentinelCallback ==
  /\ tap_os.sentinel # "none"
  /\ LET st == tap_disabled_event([inner |-> inner, tap_os |-> tap_os],
                                  tap_os.sentinel)
     IN  /\ inner' = st.inner
         /\ tap_os' = [st.tap_os EXCEPT !.sentinel = "none"]
  /\ last' = Op(TapOps, "sentinel", <<tap_os.sentinel>>, "none")
  /\ UNCHANGED << core, os_permission, pm, frontend, menu, callback,
                  auto_lock_pc, timer_obs, workers, keyboard >>

\* The main thread takes the re-enable request and re-enables the handle it
\* holds.
ReenableTap ==
  /\ tap_os.should_reenable
  /\ tap_os' = IF core.event_tap
               THEN reenable_existing_tap(clear_reenable_flag(tap_os))
               ELSE clear_reenable_flag(tap_os)
  /\ last' = Op(TapOps, "reenable", << >>,
                IF core.event_tap THEN "reenabled" ELSE "none")
  /\ UNCHANGED << inner, core, os_permission, pm, frontend, menu, callback,
                  auto_lock_pc, timer_obs, workers, keyboard >>

\* One iteration of the tray event loop with no menu event; a tap the loop
\* releases is gone and a tap it creates starts enabled.
TapTrayLoop ==
  /\ frontend = "tray"
  /\ LET w == tray_iteration([inner |-> inner, core |-> core, res |-> "none"],
                             "none", Passphrase, os_permission)
     IN  /\ inner' = w.inner
         /\ core' = w.core
         /\ menu' = [pending |-> "none",
                     lock_enabled |-> should_enable_lock(w.inner),
                     disable_enabled |-> should_enable_lock(w.inner)]
         /\ tap_os' = IF inner.should_stop_event_tap \/ inner.should_start_event_tap
                      THEN [tap_os EXCEPT !.disabled = FALSE]
                      ELSE tap_os
         /\ last' = Op(TapOps, "tray",
                       <<inner.should_stop_event_tap, inner.should_start_event_tap>>,
                       w.res)
  /\ UNCHANGED << os_permission, pm, frontend, callback, auto_lock_pc, timer_obs, workers, keyboard >>

NextTap ==
  \/ OsPermissionChange(TapOps)
  \/ OsDisablesTap
  \/ SentinelCallback
  \/ ReenableTap
  \/ TapTrayLoop
  \/ PermissionMonitor(TapOps)

SpecTap ==
  /\ Init
  /\ [][NextTap]_vars
  /\ WF_vars(SentinelCallback)
  /\ WF_vars(ReenableTap)
  /\ WF_vars(TapTrayLoop)
  /\ WF_vars(PermissionMonitor(TapOps))

\* ------------------------------------------------- the one-shot requests
\* SpecFlags: threads raise the stop, start and exit requests and two
\* consumers take them with the test-and-clear accessors.  Every accessor
\* holds the state mutex for its whole body, so each call is one step.
RequestFlags == {"should_stop_event_tap", "should_start_event_tap", "should_exit"}

\* request_stop_event_tap, request_start_event_tap, request_exit by flag.
request_flag(s, flag) ==
  IF flag = "should_stop_event_tap" THEN request_stop_event_tap(s)
  ELSE IF flag = "should_start_event_tap" THEN request_start_event_tap(s)
  ELSE request_exit(s)

\* A test that returns the flag and leaves it set.
flag_and_clear_keeps(s, flag) == [inner |-> s, res |-> s[flag]]

\* should_stop_event_tap_and_clear, should_start_event_tap_and_clear,
\* should_exit_and_clear by flag: the value read, and the flag cleared.
flag_and_clear(s, flag) ==
  [inner |-> [s EXCEPT ![flag] = FALSE], res |-> s[flag]]

FlagOps == {"request", "and_clear"}

\* The flags requested since they were last taken, carried in the history
\* variable beside the value the last call returned.
FlagsRequested == IF last.op \in FlagOps THEN last.res[2] ELSE {}

\* A thread raises a request.
FlagRequest ==
  \E flag \in RequestFlags :
    /\ inner' = request_flag(inner, flag)
    /\ last' = Op(FlagOps, "request", <<flag, 0>>,
                  <<FALSE, FlagsRequested \cup {flag}>>)
    /\ UNCHANGED << core, os_permission, pm, frontend, menu, callback,
                    auto_lock_pc, timer_obs, tap_os, workers, keyboard >>

\* One of two consumers takes a request.
FlagAndClear ==
  \E flag \in RequestFlags, consumer \in {1, 2} :
    LET r == flag_and_clear(inner, flag)
    IN  /\ inner' = r.inner
        /\ last' = Op(FlagOps, "and_clear", <<flag, consumer>>,
                      <<r.res, FlagsRequested \ {flag}>>)
        /\ UNCHANGED << core, os_permission, pm, frontend, menu, callback,
                        auto_lock_pc, timer_obs, tap_os, workers, keyboard >>

NextFlags == FlagRequest \/ FlagAndClear

SpecFlags == Init /\ [][NextFlags]_vars

\* ------------------------------------------- supervisors against disable()
\* SpecDisable: the tray front-end with its supervisors, the monitor's
\* first check done.  The auto-lock thread reads is_disabled and
\* should_auto_lock in critical sections of their own before it calls
\* set_locked, so disable() can run between its check and its set_locked.
SupervisorOps ==
  {"buffer_reset", "auto_lock", "auto_unlock", "permission_monitor", "hotkey"}

DisableOps == SupervisorOps \cup {"tray"}

\* The keys typed under SpecDisable: the two characters of the passphrase.
DisableKeyEvents ==
  { <<"KeyDown", k, {}>> : k \in {DEFAULT_TALK_KEYCODE, SPACE_KEYCODE} }

InitDisable ==
  \E au \in AutoUnlockChoices :
    /\ LET w0 == HandsOffCore_new(Passphrase)
           s1 == set_auto_unlock_timeout(w0.inner, au)
           s2 == [s1 EXCEPT !.auto_lock_timeout = AutoLockTimeout,
                            !.buffer_reset_timeout = BufferResetTimeout]
           w1 == start_hotkeys(start_event_tap([w0 EXCEPT !.inner = s2], TRUE))
       IN  /\ inner = permission_monitor_start(w1.inner, TRUE)
           /\ core = w1.core
    /\ os_permission = TRUE
    /\ pm = [pc |-> "loop", last_permission_state |-> TRUE]
    /\ frontend = "tray"
    /\ menu = [pending |-> "none", lock_enabled |-> TRUE, disable_enabled |-> TRUE]
    /\ callback = CallbackIdle
    /\ auto_lock_pc = "sleep"
    /\ timer_obs = NoObservation
    /\ tap_os = TapEnabled
    /\ workers = WorkersStart
    /\ keyboard = KeysUp
    /\ last = Untraced

\* The auto-lock thread wakes: the disabled check, then should_auto_lock.
AutoLockCheck ==
  /\ auto_lock_pc = "sleep"
  /\ auto_lock_pc' = IF ~inner.is_disabled /\ should_auto_lock(inner)
                     THEN "set_locked" ELSE "sleep"
  /\ last' = Op(DisableOps, "auto_lock_check", << >>, "none")
  /\ UNCHANGED << inner, core, os_permission, pm, frontend, menu, callback,
                  timer_obs, tap_os, workers, keyboard >>

\* The auto-lock thread, its check having been true: state.set_locked(true).
AutoLockSet ==
  /\ auto_lock_pc = "set_locked"
  /\ inner' = set_locked(inner, TRUE)
  /\ auto_lock_pc' = "sleep"
  /\ last' = Op(DisableOps, "auto_lock", << >>, "none")
  /\ UNCHANGED << core, os_permission, pm, frontend, menu, callback,
                  timer_obs, tap_os, workers, keyboard >>

NextDisable ==
  \/ Tick(DisableOps)
  \/ OsPermissionChange(DisableOps)
  \/ KeyEvent(DisableOps, DisableKeyEvents)
  \/ BufferResetTick(DisableOps)
  \/ AutoLockCheck
  \/ AutoLockSet
  \/ AutoUnlockTick(DisableOps)
  \/ HotkeyListener(DisableOps)
  \/ PermissionMonitor(DisableOps)
  \/ MenuClick(DisableOps)
  \/ TrayLoop(DisableOps)

SpecDisable == InitDisable /\ [][NextDisable]_vars

\* ------------------------------------------------------ the input engine
\* SpecInput: the key and pointer events of every type the hardware sends,
\* the hotkey listener and the passing of time, with no supervisor.
InputOps == {"key", "pointer", "hotkey"}

\* The pointer event types of the OS: movement, the buttons, the drags and
\* the scroll wheel.
AllPointerEvents ==
  {"MouseMoved", "LeftMouseDown", "LeftMouseUp", "LeftMouseDragged",
   "RightMouseDown", "RightMouseUp", "RightMouseDragged",
   "OtherMouseDown", "OtherMouseUp", "OtherMouseDragged", "ScrollWheel"}

\* A pointer event happens: the tap hands it to event_tap_callback when its
\* type is in the event mask, and otherwise it goes by unseen.
InputPointerEvent ==
  \E e \in AllPointerEvents :
    /\ core.event_tap
    /\ ~tap_os.disabled
    /\ LET r == IF e \in event_mask THEN pointer_event(inner, e)
                ELSE [s |-> inner, block |-> FALSE]
       IN  /\ inner' = r.s
           /\ last' = Op(InputOps, "pointer", <<e>>,
                         IF r.block THEN "block" ELSE "pass")
    /\ UNCHANGED << core, os_permission, pm, frontend, menu, callback,
                    auto_lock_pc, timer_obs, tap_os, workers, keyboard >>

NextInput ==
  \/ Tick(InputOps)
  \/ KeyEvent(InputOps, EngineKeyEvents)
  \/ InputPointerEvent
  \/ HotkeyListener(InputOps)

SpecInput == Init /\ [][NextInput]_vars

\* ------------------------------------------------------ the state mutex
\* SpecMutex: the threads of the thread-safety tests call the accessors.
\* The mutex is not reentrant: a thread that asks for it while holding it
\* waits for ever.

\* The accessor each test thread calls, and its argument.
WorkerCall(t) ==
  IF t = 1 THEN <<"append_to_buffer", "a">>
  ELSE IF t = 2 THEN <<"append_to_buffer", "b">>
  ELSE <<"set_locked", t % 2 = 0>>

\* An accessor that asks for the mutex again while it holds it.
accessor_body_reentrant(op) == <<"lock", "lock", "apply", "unlock", "unlock">>

\* The body of an accessor: take the mutex, change the state, drop the
\* guard at the end of the body.
accessor_body(op) == <<"lock", "apply", "unlock">>

\* The change an accessor makes while it holds the mutex.
accessor_apply(s, call) ==
  IF call[1] = "append_to_buffer" THEN append_to_buffer(s, call[2])
  ELSE set_locked(s, call[2])

\* The next step of a thread inside or before a call.
WorkerStep(t) ==
  /\ workers.todo[t] > 0
  /\ LET body == accessor_body(WorkerCall(t)[1])
         step == body[workers.pc[t]]
         finished == workers.pc[t] = Len(body)
     IN  /\ step = "lock" => workers.holder = 0
         /\ inner' = IF step = "apply" THEN accessor_apply(inner, WorkerCall(t))
                     ELSE inner
         /\ workers' =
              [holder |-> IF step = "lock" THEN t
                          ELSE IF step = "unlock" THEN 0
                          ELSE workers.holder,
               pc |-> [workers.pc EXCEPT ![t] = IF finished THEN 1 ELSE @ + 1],
               todo |-> [workers.todo EXCEPT ![t] = IF finished THEN @ - 1 ELSE @]]
  /\ last' = Untraced
  /\ UNCHANGED << core, os_permission, pm, frontend, menu, callback,
                  auto_lock_pc, timer_obs, tap_os, keyboard >>

NextMutex == \E t \in Workers : WorkerStep(t)

SpecMutex ==
  /\ Init
  /\ [][NextMutex]_vars
  /\ \A t \in Workers : WF_vars(WorkerStep(t))

\* ------------------------------------------------ startup configuration
\* SpecConfig: the two front-ends configure the timeouts at startup from
\* the command-line flag, the environment and the config file, and
\* Config::new and Config::load_from_path accept or refuse a configuration.
AUTO_LOCK_MIN_SECONDS == 20
AUTO_LOCK_MAX_SECONDS == 600
AUTO_UNLOCK_MIN_SECONDS == 60
AUTO_UNLOCK_MAX_SECONDS == 900

\* AUTO_UNLOCK_DEFAULT_SECONDS of a release and of a debug build.
AutoUnlockBuildDefaults == {0, 60}

\* An environment variable: not set, not a number, or a number.
Unset == <<"unset">>
Unparsable == <<"unparsable">>
Parsed(n) == <<"value", n>>

\* The values tried for the auto-lock and for the auto-unlock timeout: zero
\* and the values at and next to the ends of the range.
AutoLockInputs ==
  {0, AUTO_LOCK_MIN_SECONDS - 1, AUTO_LOCK_MIN_SECONDS,
   AUTO_LOCK_MAX_SECONDS, AUTO_LOCK_MAX_SECONDS + 1}
AutoUnlockInputs ==
  {0, AUTO_UNLOCK_MIN_SECONDS - 1, AUTO_UNLOCK_MIN_SECONDS,
   AUTO_UNLOCK_MAX_SECONDS, AUTO_UNLOCK_MAX_SECONDS + 1}

\* parse_auto_unlock_timeout on the value of HANDS_OFF_AUTO_UNLOCK.
parse_auto_unlock_timeout(env) ==
  IF env \in {Unset, Unparsable} THEN None
  ELSE IF env[2] \in AUTO_UNLOCK_MIN_SECONDS..AUTO_UNLOCK_MAX_SECONDS
  THEN Some(env[2])
  ELSE None

\* parse_auto_lock_timeout on the value of HANDS_OFF_AUTO_LOCK.
parse_auto_lock_timeout(env) ==
  IF env \in {Unset, Unparsable} THEN None
  ELSE IF env[2] \in AUTO_LOCK_MIN_SECONDS..AUTO_LOCK_MAX_SECONDS
  THEN Some(env[2])
  ELSE None

\* resolve_auto_unlock_timeout_internal: environment, then config file
\* (0 means disabled), then the build's default.
resolve_auto_unlock_timeout_internal(env_value, config_value, build_default) ==
  IF IsSome(env_value) THEN env_value
  ELSE IF config_value # 0 THEN Some(config_value)
  ELSE IF build_default # 0 THEN Some(build_default)
  ELSE None

\* HandsOffCore::set_auto_lock_timeout: stores the value when there is one.
HandsOffCore_set_auto_lock_timeout(s, timeout) ==
  IF IsSome(timeout) THEN [s EXCEPT !.auto_lock_timeout = Unwrap(timeout)] ELSE s

\* The timeouts as the command-line front-end's main configures them.
cli_configure(s, flag, env_lock, env_unlock) ==
  LET s1 == set_auto_unlock_timeout(s, parse_auto_unlock_timeout(env_unlock))
      auto_lock_timeout ==
        IF IsSome(flag)
           /\ Unwrap(flag) \in AUTO_LOCK_MIN_SECONDS..AUTO_LOCK_MAX_SECONDS
        THEN flag
        ELSE parse_auto_lock_timeout(env_lock)
  IN  HandsOffCore_set_auto_lock_timeout(s1, auto_lock_timeout)

\* The timeouts as the tray front-end's main configures them from the
\* loaded config file cfg.
tray_configure(s, cfg, env_lock, env_unlock, build_default) ==
  LET s1 == set_auto_unlock_timeout(s,
              resolve_auto_unlock_timeout_internal(
                parse_auto_unlock_timeout(env_unlock), cfg.auto_unlock_timeout,
                build_default))
      env_value == parse_auto_lock_timeout(env_lock)
      auto_lock_timeout ==
        IF IsSome(env_value) THEN env_value ELSE Some(cfg.auto_lock_timeout)
  IN  HandsOffCore_set_auto_lock_timeout(s1, auto_lock_timeout)

\* A hotkey string is a sequence of characters; to_uppercase on the letters
\* that are tried.
to_uppercase(key) ==
  [i \in 1..Len(key) |->
     IF key[i] = "l" THEN "L" ELSE IF key[i] = "t" THEN "T"
     ELSE IF key[i] = "m" THEN "M" ELSE key[i]]

\* The upper-case letters among the characters tried.
AsciiUpper == {"L", "T", "M"}

\* Config::validate_hotkey: one character, a letter.
validate_hotkey(key) ==
  LET key_upper == to_uppercase(key)
  IN  Len(key_upper) = 1 /\ key_upper[1] \in AsciiUpper

\* The validation that Config::new and Config::load_from_path both make:
\* each configured key valid, and the two different when both are
\* configured.
config_valid(lock_key, talk_key) ==
  /\ IsSome(lock_key) => validate_hotkey(Unwrap(lock_key))
  /\ IsSome(talk_key) => validate_hotkey(Unwrap(talk_key))
  /\ (IsSome(lock_key) /\ IsSome(talk_key))
       => to_uppercase(Unwrap(lock_key)) # to_uppercase(Unwrap(talk_key))

\* get_lock_key_code and get_talk_key_code: the configured letter in upper
\* case, or the default.
get_lock_key_code(lock_key) ==
  IF IsSome(lock_key) THEN to_uppercase(Unwrap(lock_key)) ELSE <<"L">>
get_talk_key_code(talk_key) ==
  IF IsSome(talk_key) THEN to_uppercase(Unwrap(talk_key)) ELSE <<"T">>

\* The hotkey settings tried: none, letters in both cases, a digit, two
\* letters and the empty string.
HotkeyInputs ==
  {None} \cup { Some(k) : k \in {<<"L">>, <<"l">>, <<"T">>, <<"t">>, <<"m">>,
                                 <<"M">>, <<"1">>, <<"L", "T">>, << >>} }

ConfigOps == {"cli_main", "tray_main", "Config::new", "Config::load_from_path"}

\* The command-line front-end starts; a process starts once.
CliStartup ==
  \E flag \in {None} \cup {Some(n) : n \in AutoLockInputs},
     env_lock \in {Unset, Unparsable} \cup {Parsed(n) : n \in AutoLockInputs},
     env_unlock \in {Unset, Unparsable} \cup {Parsed(n) : n \in AutoUnlockInputs} :
    /\ last.op \notin {"cli_main", "tray_main"}
    /\ inner' = cli_configure(HandsOffCore_new(Passphrase).inner,
                              flag, env_lock, env_unlock)
    /\ frontend' = "cli"
    /\ last' = Op(ConfigOps, "cli_main", <<flag, env_lock, env_unlock>>, "Ok")
    /\ UNCHANGED << core, os_permission, pm, menu, callback, auto_lock_pc,
                    timer_obs, tap_os, workers, keyboard >>

\* The tray front-end starts with a config file that Config::load accepted.
TrayStartup ==
  \E cfg_lock \in AutoLockInputs, cfg_unlock \in AutoUnlockInputs,
     env_lock \in {Unset, Parsed(AUTO_LOCK_MIN_SECONDS - 1),
                  Parsed(AUTO_LOCK_MAX_SECONDS)},
     env_unlock \in {Unset, Parsed(0), Parsed(AUTO_UNLOCK_MIN_SECONDS)},
     build_default \in AutoUnlockBuildDefaults :
    /\ last.op \notin {"cli_main", "tray_main"}
    /\ inner' = tray_configure(HandsOffCore_new(Passphrase).inner,
                               [auto_lock_timeout |-> cfg_lock,
                                auto_unlock_timeout |-> cfg_unlock],
                               env_lock, env_unlock, build_default)
    /\ frontend' = "tray"
    /\ last' = Op(ConfigOps, "tray_main",
                  <<cfg_lock, cfg_unlock, env_lock, env_unlock>>, "Ok")
    /\ UNCHANGED << core, os_permission, pm, menu, callback, auto_lock_pc,
                    timer_obs, tap_os, workers, keyboard >>

\* Config::new or Config::load_from_path on hotkey settings, before the
\* front-end configures anything.
ConfigValidate ==
  \E op \in {"Config::new", "Config::load_from_path"},
     lock_key \in HotkeyInputs, talk_key \in HotkeyInputs :
    /\ last = Untraced
    /\ last' = Op(ConfigOps, op, <<lock_key, talk_key>>,
                  IF config_valid(lock_key, talk_key) THEN "Ok" ELSE "Err")
    /\ UNCHANGED << inner, core, os_permission, pm, frontend, menu, callback,
                    auto_lock_pc, timer_obs, tap_os, workers, keyboard >>

NextConfig == CliStartup \/ TrayStartup \/ ConfigValidate

SpecConfig == Init /\ [][NextConfig]_vars

\* --------------------------------------------------- the hotkey bindings
\* SpecBinding: the front-end stores the configured lock and talk keys in
\* the session state, then key events and registered shortcuts arrive.
set_lock_keycode(s, keycode) == [s EXCEPT !.lock_keycode = keycode]
set_talk_keycode(s, keycode) == [s EXCEPT !.talk_keycode = keycode]

\* The keycodes of Code::KeyL and Code::KeyT, which register_lock_hotkey and
\* register_talk_hotkey pass to the shortcut subsystem.
register_lock_hotkey == DEFAULT_LOCK_KEYCODE
register_talk_hotkey == DEFAULT_TALK_KEYCODE

\* The keys a binding is chosen from: L, T and K (keycode 40).
BindingKeycodes == {DEFAULT_LOCK_KEYCODE, DEFAULT_TALK_KEYCODE, 40}

\* Each of them plain and with the hotkey modifiers, pressed and released.
BindingKeyEvents ==
  { <<t, k, m>> : t \in {"KeyDown", "KeyUp"}, k \in BindingKeycodes,
                  m \in {{}, HotkeyModifiers} }

BindingOps == {"key", "hotkey", "set_hotkey_config"}

\* main() of the tray hands the configured pair, which it has checked to be
\* two different keys, to the core before anything is started.
SetHotkeyConfig ==
  \E lock_key \in BindingKeycodes, talk_key \in BindingKeycodes :
    /\ lock_key # talk_key
    /\ last = Untraced
    /\ frontend = "tray"
    /\ inner' = set_talk_keycode(set_lock_keycode(inner, lock_key), talk_key)
    /\ last' = Op(BindingOps, "set_hotkey_config", <<lock_key, talk_key>>, "none")
    /\ UNCHANGED << core, os_permission, pm, frontend, menu, callback,
                    auto_lock_pc, timer_obs, tap_os, workers, keyboard >>

NextBinding ==
  \/ SetHotkeyConfig
  \/ Tick(BindingOps)
  \/ KeyEvent(BindingOps, BindingKeyEvents)
  \/ HotkeyListener(BindingOps)

SpecBinding == Init /\ [][NextBinding]_vars

\* ------------------------------------------------- SHA-256 and hex digest
\* digest::digest(&digest::SHA256, bytes) of ring, as FIPS 180-4 defines it.
\* A 32-bit word is the pair <<high half, low half>> of its 16-bit halves.
SHA256_H0 ==
  <<<<27145, 58983>>, <<47975, 44677>>, <<15470, 62322>>, <<42319, 62778>>,
     <<20750, 21119>>, <<39685, 26764>>, <<8067, 55723>>, <<23520, 52505>> >>

SHA256_K ==
  <<<<17034, 12184>>, <<28983, 17553>>, <<46528, 64463>>, <<59829, 56229>>,
     <<14678, 49755>>, <<23025, 4593>>, <<37439, 33444>>, <<43804, 24277>>,
     <<55303, 43672>>, <<4739, 23297>>, <<9265, 34238>>, <<21772, 32195>>,
     <<29374, 23924>>, <<32990, 45566>>, <<39900, 1703>>, <<49563, 61812>>,
     <<58523, 27073>>, <<61374, 18310>>, <<4033, 40390>>, <<9228, 41420>>,
     <<11753, 11375>>, <<19060, 33962>>, <<23728, 43484>>, <<30457, 35034>>,
     <<38974, 20818>>, <<43057, 50797>>, <<45059, 10184>>, <<48985, 32711>>,
     <<50912, 3059>>, <<54695, 37191>>, <<1738, 25425>>, <<5161, 10599>>,
     <<10167, 2693>>, <<11803, 8504>>, <<19756, 28156>>, <<21304, 3347>>,
     <<25866, 29524>>, <<30314, 2747>>, <<33218, 51502>>, <<37490, 11397>>,
     <<41663, 59553>>, <<43034, 26187>>, <<49739, 35696>>, <<51052, 20899>>,
     <<53650, 59417>>, <<54937, 1572>>, <<62478, 13701>>, <<4202, 41072>>,
     <<6564, 49430>>, <<7735, 27656>>, <<10056, 30540>>, <<13488, 48309>>,
     <<14620, 3251>>, <<20184, 43594>>, <<23452, 51791>>, <<26670, 28659>>,
     <<29839, 33518>>, <<30885, 25455>>, <<33992, 30740>>, <<36039, 520>>,
     <<37054, 65530>>, <<42064, 27883>>, <<48889, 41975>>, <<50801, 30962>> >>

RECURSIVE xor16(_, _, _)
xor16(a, b, n) ==
  IF n = 0 THEN 0
  ELSE ((a + b) % 2) + 2 * xor16(a \div 2, b \div 2, n - 1)

RECURSIVE and16(_, _, _)
and16(a, b, n) ==
  IF n = 0 THEN 0
  ELSE ((a % 2) * (b % 2)) + 2 * and16(a \div 2, b \div 2, n - 1)

word_xor(x, y) == << xor16(x[1], y[1], 16), xor16(x[2], y[2], 16) >>
word_and(x, y) == << and16(x[1], y[1], 16), and16(x[2], y[2], 16) >>
word_not(x) == << 65535 - x[1], 65535 - x[2] >>

wrapping_add(x, y) ==
  LET lo == x[2] + y[2]
      hi == x[1] + y[1] + (lo \div 65536)
  IN  << hi % 65536, lo % 65536 >>

\* Rotation and shift to the right by n bits, 0 <= n < 32.
rotate_right(x, n) ==
  LET y == IF n >= 16 THEN << x[2], x[1] >> ELSE x
      m == n % 16
      p == 2 ^ m
      q == 2 ^ (16 - m)
  IN  << (y[1] \div p) + (y[2] % p) * q, (y[2] \div p) + (y[1] % p) * q >>

shift_right(x, n) ==
  LET p == 2 ^ n
      q == 2 ^ (16 - n)
  IN  << x[1] \div p, (x[2] \div p) + (x[1] % p) * q >>

big_sigma0(x) ==
  word_xor(word_xor(rotate_right(x, 2), rotate_right(x, 13)), rotate_right(x, 22))
big_sigma1(x) ==
  word_xor(word_xor(rotate_right(x, 6), rotate_right(x, 11)), rotate_right(x, 25))
small_sigma0(x) ==
  word_xor(word_xor(rotate_right(x, 7), rotate_right(x, 18)), shift_right(x, 3))
small_sigma1(x) ==
  word_xor(word_xor(rotate_right(x, 17), rotate_right(x, 19)), shift_right(x, 10))
ch(x, y, z) == word_xor(word_and(x, y), word_and(word_not(x), z))
maj(x, y, z) ==
  word_xor(word_xor(word_and(x, y), word_and(x, z)), word_and(y, z))

\* The message, a 1 bit, zero bytes up to 56 modulo 64, and the length in
\* bits as a 64-bit big-endian number (the messages here are far shorter
\* than 2^16 bits).
sha256_pad(bytes) ==
  LET len == Len(bytes)
      zeros == (119 - len) % 64
      bits == 8 * len
  IN  bytes \o << 128 >> \o [i \in 1..zeros |-> 0]
            \o << 0, 0, 0, 0, 0, 0, bits \div 256, bits % 256 >>

\* The 16 big-endian words of block number b (from 0) of the padded message.
sha256_block(padded, b) ==
  [ i \in 1..16 |->
      LET k == 64 * b + 4 * (i - 1)
      IN  << padded[k + 1] * 256 + padded[k + 2],
             padded[k + 3] * 256 + padded[k + 4] >> ]

RECURSIVE sha256_schedule(_)
sha256_schedule(w) ==
  IF Len(w) = 64 THEN w
  ELSE LET t == Len(w) + 1
       IN  sha256_schedule(
             Append(w, wrapping_add(
                         wrapping_add(small_sigma1(w[t - 2]), w[t - 7]),
                         wrapping_add(small_sigma0(w[t - 15]), w[t - 16]))))

\* One round: the eight working variables a..h after round t, from the
\* schedule word and the round constant of t.
sha256_round(v, wt, kt) ==
  LET t1 == wrapping_add(
              wrapping_add(wrapping_add(v[8], big_sigma1(v[5])),
                           ch(v[5], v[6], v[7])),
              wrapping_add(kt, wt))
      t2 == wrapping_add(big_sigma0(v[1]), maj(v[1], v[2], v[3]))
  IN  << wrapping_add(t1, t2), v[1], v[2], v[3],
         wrapping_add(v[4], t1), v[5], v[6], v[7] >>

\* The working variables after round 64, from those before round t.  (The
\* test of Len(v) has the variables of one round computed before the next
\* round is entered.)
RECURSIVE sha256_rounds(_, _, _)
sha256_rounds(v, w, t) ==
  IF t > 64 \/ Len(v) # 8 THEN v
  ELSE sha256_rounds(sha256_round(v, w[t], SHA256_K[t]), w, t + 1)

sha256_compress(h, block) ==
  LET v == sha256_rounds(h, sha256_schedule(block), 1)
  IN  [ i \in 1..8 |-> wrapping_add(h[i], v[i]) ]

RECURSIVE sha256_blocks(_, _, _)
sha256_blocks(h, padded, b) ==
  IF 64 * b >= Len(padded) THEN h
  ELSE sha256_blocks(sha256_compress(h, sha256_block(padded, b)), padded, b + 1)

digest_SHA256(bytes) == sha256_blocks(SHA256_H0, sha256_pad(bytes), 0)

\* hex::encode: two lower-case hexadecimal digits for each byte.
HexDigits ==
  << "0", "1", "2", "3", "4", "5", "6", "7",
     "8", "9", "a", "b", "c", "d", "e", "f" >>

hex_encode(words) ==
  [ i \in 1..(8 * Len(words)) |->
      LET half == words[(i - 1) \div 8 + 1][((i - 1) % 8) \div 4 + 1]
          nibble == (half \div (16 ^ (3 - ((i - 1) % 4)))) % 16
      IN  HexDigits[nibble + 1] ]


\* -------------------------------------------- the credential verifier
\* SpecVerifier: two plaintexts are drawn, both are hashed, and both are
\* verified against the digest of the first.
MaxPlaintextLen == 2

\* A letter in both cases, so that case-distinct plaintexts are drawn.
PlaintextAlphabet == {"a", "A"}

Plaintexts ==
  UNION { [1..n -> PlaintextAlphabet] : n \in 0..MaxPlaintextLen }

\* str::as_bytes: the UTF-8 encoding, one byte for an ASCII letter.
as_bytes(passphrase) ==
  [ i \in 1..Len(passphrase) |-> IF passphrase[i] = "a" THEN 97 ELSE 65 ]

utils_hash_passphrase(passphrase) ==
  hex_encode(digest_SHA256(as_bytes(passphrase)))

\* The digest of the plaintext with its letters in lower case.
utils_verify_passphrase_any_case(passphrase, hash) ==
  utils_hash_passphrase([i \in 1..Len(passphrase) |-> "a"]) = hash

utils_verify_passphrase(passphrase, hash) ==
  utils_hash_passphrase(passphrase) = hash

VerifierOps == {"plaintexts", "hash_passphrase", "verify_passphrase"}

InitVerifier ==
  \E p \in Plaintexts, q \in Plaintexts :
    /\ inner = HandsOffCore_new(Passphrase).inner
    /\ core = HandsOffCore_new(Passphrase).core
    /\ os_permission = TRUE
    /\ pm = [pc |-> "start", last_permission_state |-> FALSE]
    /\ frontend = "cli"
    /\ menu = [pending |-> "none", lock_enabled |-> TRUE, disable_enabled |-> TRUE]
    /\ callback = CallbackIdle
    /\ auto_lock_pc = "sleep"
    /\ timer_obs = NoObservation
    /\ tap_os = TapEnabled
    /\ workers = WorkersStart
    /\ keyboard = KeysUp
    /\ last = Op(VerifierOps, "plaintexts", <<p, q>>, "none")

\* hash_passphrase of each of the two plaintexts.
HashPassphrase ==
  /\ last.op = "plaintexts"
  /\ last' = Op(VerifierOps, "hash_passphrase", last.arg,
                << utils_hash_passphrase(last.arg[1]),
                   utils_hash_passphrase(last.arg[2]) >>)
  /\ UNCHANGED << inner, core, os_permission, pm, frontend, menu, callback,
                  auto_lock_pc, timer_obs, tap_os, workers, keyboard >>

\* verify_passphrase of each of the two plaintexts against the digest of
\* the first.
VerifyPassphrase ==
  /\ last.op = "hash_passphrase"
  /\ last' = Op(VerifierOps, "verify_passphrase", last.arg,
                [ hash |-> last.res,
                  verify |-> << utils_verify_passphrase(last.arg[1], last.res[1]),
                                utils_verify_passphrase(last.arg[2], last.res[1]) >> ])
  /\ UNCHANGED << inner, core, os_permission, pm, frontend, menu, callback,
                  auto_lock_pc, timer_obs, tap_os, workers, keyboard >>

NextVerifier ==
  \/ HashPassphrase
  \/ VerifyPassphrase

SpecVerifier == InitVerifier /\ [][NextVerifier]_vars

\* ------------------------------------------------ the character classifier
\* SpecClassifier: a keycode and a shift state are drawn and classified.
\* The keycodes run from below zero to past the arrow keys (123..126).
MaxKeycode == 130

ClassifierOps == {"keycode", "keycode_to_char"}

InitClassifier ==
  \E keycode \in (-2)..MaxKeycode, shift \in BOOLEAN :
    /\ inner = HandsOffCore_new(Passphrase).inner
    /\ core = HandsOffCore_new(Passphrase).core
    /\ os_permission = TRUE
    /\ pm = [pc |-> "start", last_permission_state |-> FALSE]
    /\ frontend = "cli"
    /\ menu = [pending |-> "none", lock_enabled |-> TRUE, disable_enabled |-> TRUE]
    /\ callback = CallbackIdle
    /\ auto_lock_pc = "sleep"
    /\ timer_obs = NoObservation
    /\ tap_os = TapEnabled
    /\ workers = WorkersStart
    /\ keyboard = KeysUp
    /\ last = Op(ClassifierOps, "keycode", <<keycode, shift>>, None)

Classify ==
  /\ last.op = "keycode"
  /\ last' = Op(ClassifierOps, "keycode_to_char", last.arg,
                keycode_to_char(last.arg[1], last.arg[2]))
  /\ UNCHANGED << inner, core, os_permission, pm, frontend, menu, callback,
                  auto_lock_pc, timer_obs, tap_os, workers, keyboard >>

NextClassifier == Classify

SpecClassifier == InitClassifier /\ [][NextClassifier]_vars

\* ----------------------------------------------- the buffer-reset timer
\* SpecReset: the passphrase keys and backspace are typed, seconds pass,
\* and the buffer-reset thread makes its passes; the hotkey listener locks.
ResetOps == {"key", "buffer_reset", "hotkey"}

ResetKeyEvents ==
  { <<"KeyDown", k, {}>> : k \in {DEFAULT_TALK_KEYCODE, SPACE_KEYCODE,
                                  BACKSPACE_KEYCODE} }

\* One pass of the buffer-reset thread, with the buffer it found and
\* whether it cleared it.
ResetTick ==
  LET fires == /\ ~inner.is_disabled
               /\ should_reset_buffer(inner)
               /\ inner.input_buffer # << >>
  IN  /\ inner' = IF fires THEN clear_buffer(inner) ELSE inner
      /\ last' = Op(ResetOps, "buffer_reset", << inner.input_buffer >>,
                    IF fires THEN "cleared" ELSE "none")
      /\ UNCHANGED << core, os_permission, pm, frontend, menu, callback,
                      auto_lock_pc, timer_obs, tap_os, workers, keyboard >>

NextReset ==
  \/ Tick(ResetOps)
  \/ KeyEvent(ResetOps, ResetKeyEvents)
  \/ ResetTick
  \/ HotkeyListener(ResetOps)

SpecReset == Init /\ [][NextReset]_vars

\* ------------------------------------------------- the keys as held
\* SpecTalk: the user presses and releases the talk key, the space bar and
\* the three modifier keys in any order.  A key event carries the
\* modifiers held at that moment; a modifier going down or up is a
\* FlagsChanged event, which is not in the tap's event mask, so the
\* callback is not run for it.
TalkOps == {"key", "modifier", "hotkey"}

ModifierChange ==
  \E m \in HotkeyModifiers :
    /\ keyboard' = [keyboard EXCEPT !.modifiers =
                      IF m \in @ THEN @ \ {m} ELSE @ \cup {m}]
    /\ last' = Op(TalkOps, "modifier", <<m>>, "none")
    /\ UNCHANGED << inner, core, os_permission, pm, frontend, menu, callback,
                    auto_lock_pc, timer_obs, tap_os, workers >>

\* The talk key goes down: KeyDown with its keycode and the modifiers held.
TalkKeyDown ==
  /\ ~keyboard.talk_down
  /\ core.event_tap
  /\ ~tap_os.disabled
  /\ Len(inner.input_buffer) < MaxBuffer
  /\ keyboard' = [keyboard EXCEPT !.talk_down = TRUE]
  /\ LET e == <<"KeyDown", DEFAULT_TALK_KEYCODE, keyboard.modifiers>>
         r == handle_keyboard_event(inner, e[1], e[2], e[3])
     IN  /\ inner' = r.s
         /\ last' = Op(TalkOps, "key", e, IF r.block THEN "block" ELSE "pass")
  /\ UNCHANGED << core, os_permission, pm, frontend, menu, callback,
                  auto_lock_pc, timer_obs, tap_os, workers >>

\* The talk key goes up: KeyUp with the modifiers still held.
TalkKeyUp ==
  /\ keyboard.talk_down
  /\ core.event_tap
  /\ ~tap_os.disabled
  /\ keyboard' = [keyboard EXCEPT !.talk_down = FALSE]
  /\ LET e == <<"KeyUp", DEFAULT_TALK_KEYCODE, keyboard.modifiers>>
         r == handle_keyboard_event(inner, e[1], e[2], e[3])
     IN  /\ inner' = r.s
         /\ last' = Op(TalkOps, "key", e, IF r.block THEN "block" ELSE "pass")
  /\ UNCHANGED << core, os_permission, pm, frontend, menu, callback,
                  auto_lock_pc, timer_obs, tap_os, workers >>

\* The space bar is tapped: its KeyDown with the modifiers held.
SpaceKeyDown ==
  /\ core.event_tap
  /\ ~tap_os.disabled
  /\ Len(inner.input_buffer) < MaxBuffer
  /\ LET e == <<"KeyDown", SPACE_KEYCODE, keyboard.modifiers>>
         r == handle_keyboard_event(inner, e[1], e[2], e[3])
     IN  /\ inner' = r.s
         /\ last' = Op(TalkOps, "key", e, IF r.block THEN "block" ELSE "pass")
  /\ UNCHANGED << core, os_permission, pm, frontend, menu, callback,
                  auto_lock_pc, timer_obs, tap_os, workers, keyboard >>

NextTalk ==
  \/ ModifierChange
  \/ TalkKeyDown
  \/ TalkKeyUp
  \/ SpaceKeyDown
  \/ HotkeyListener(TalkOps)

SpecTalk == Init /\ [][NextTalk]_vars

\* ------------------------------------------ unlocking and the idle clock
\* SpecRelock: the passphrase is typed, seconds pass, the hotkey listener
\* and the auto-lock thread lock, the permission monitor keeps its cache.
RelockOps == {"key", "auto_lock", "hotkey"}

NextRelock ==
  \/ Tick(RelockOps)
  \/ KeyEvent(RelockOps, DisableKeyEvents)
  \/ AutoLockTick(RelockOps)
  \/ HotkeyListener(RelockOps)
  \/ PermissionMonitor(RelockOps)

SpecRelock == Init /\ [][NextRelock]_vars

\* ---------------------------------------- backspace and the buffer reset
\* SpecBackspace: the callback's handling of a backspace in its critical
\* sections (get_buffer; the write of the popped copy; update_key_time),
\* interleaved with the passes of the buffer-reset thread.
BackspaceOps == {"get_buffer", "write_back", "buffer_reset"}

\* The callback receives a backspace key-down while locked: the tests up to
\* mod.rs 76, then state.get_buffer() and, on a non-empty copy, the pop.
BackspaceGetBuffer ==
  /\ core.event_tap
  /\ ~tap_os.disabled
  /\ callback = CallbackIdle
  /\ inner.is_locked
  /\ callback' = IF inner.input_buffer # << >>
                 THEN [pc |-> "write_back", ch |-> "",
                       buffer |-> Pop(inner.input_buffer)]
                 ELSE [pc |-> "update_key_time", ch |-> ""]
  /\ last' = Op(BackspaceOps, "get_buffer", << inner.input_buffer >>, "none")
  /\ UNCHANGED << inner, core, os_permission, pm, frontend, menu, auto_lock_pc,
                  timer_obs, tap_os, workers, keyboard >>

\* state.lock().input_buffer = buffer;
BackspaceWriteBack ==
  /\ callback.pc = "write_back"
  /\ inner' = [inner EXCEPT !.input_buffer = callback.buffer]
  /\ callback' = [pc |-> "update_key_time", ch |-> ""]
  /\ last' = Op(BackspaceOps, "write_back", << callback.buffer >>, "none")
  /\ UNCHANGED << core, os_permission, pm, frontend, menu, auto_lock_pc,
                  timer_obs, tap_os, workers, keyboard >>

\* state.update_key_time(); return true
BackspaceKeyTime ==
  /\ callback.pc = "update_key_time"
  /\ inner' = update_key_time(inner)
  /\ callback' = CallbackIdle
  /\ last' = Op(BackspaceOps, "update_key_time", << >>, "none")
  /\ UNCHANGED << core, os_permission, pm, frontend, menu, auto_lock_pc,
                  timer_obs, tap_os, workers, keyboard >>

NextBackspace ==
  \/ Tick(BackspaceOps)
  \/ KeyEvent(BackspaceOps, DisableKeyEvents)
  \/ BackspaceGetBuffer
  \/ BackspaceWriteBack
  \/ BackspaceKeyTime
  \/ BufferResetTick(BackspaceOps)
  \/ HotkeyListener(BackspaceOps)

SpecBackspace == Init /\ [][NextBackspace]_vars

\* ------------------------------------------------------------------ claims
\* The character a key-down event types: none for the two hotkeys.
IsHotkey(e) == e[2] \in {37, 17} /\ HotkeyModifiers \subseteq e[3]
TypedChar(e) ==
  IF e[1] = "KeyDown" /\ ~IsHotkey(e) /\ e[2] # BACKSPACE_KEYCODE
  THEN keycode_to_char(e[2], "Shift" \in e[3]) ELSE None

\* C1: while locked, handle_keyboard_event blocks every key-down and key-up
\* event, whatever the key, except the space key while talk_key_pressed.
C1_LockedKeysSuppressed ==
  [][ (last'.op = "key" /\ inner.is_locked) =>
        (last'.res = "pass" <=>
           (last'.arg[2] = SPACE_KEYCODE /\ inner.talk_key_pressed)) ]_vars

\* C1 witness: a key-up of an unclassifiable key was blocked while locked.
C1_Witness ==
  /\ last = [op |-> "key", arg |-> <<"KeyUp", 53, {}>>, res |-> "block"]
  /\ inner.is_locked

\* C2 as stated: locked, with the buffer a proper prefix of the passphrase,
\* the key-down of the next character is blocked, leaves the state locked
\* with the longer prefix, or, for the last character, unlocked with the
\* buffer empty and lock_start_time cleared.
C2_Original ==
  [][ \A k \in 1..Len(Passphrase) :
        ( /\ last'.op = "key"
          /\ TypedChar(last'.arg) = Some(Passphrase[k])
          /\ inner.is_locked
          /\ inner.input_buffer = SubSeq(Passphrase, 1, k - 1) )
        => /\ last'.res = "block"
           /\ IF k < Len(Passphrase)
              THEN /\ inner'.is_locked
                   /\ inner'.input_buffer = SubSeq(Passphrase, 1, k)
              ELSE /\ ~inner'.is_locked
                   /\ inner'.input_buffer = << >>
                   /\ inner'.lock_start_time = None ]_vars

\* C2 amended: the same, for every character that is not a space typed
\* while talk_key_pressed (that one is passed through and not appended).
C2_TypingPassphraseUnlocks ==
  [][ \A k \in 1..Len(Passphrase) :
        ( /\ last'.op = "key"
          /\ TypedChar(last'.arg) = Some(Passphrase[k])
          /\ ~(last'.arg[2] = SPACE_KEYCODE /\ inner.talk_key_pressed)
          /\ inner.is_locked
          /\ inner.input_buffer = SubSeq(Passphrase, 1, k - 1) )
        => /\ last'.res = "block"
           /\ IF k < Len(Passphrase)
              THEN /\ inner'.is_locked
                   /\ inner'.input_buffer = SubSeq(Passphrase, 1, k)
              ELSE /\ ~inner'.is_locked
                   /\ inner'.input_buffer = << >>
                   /\ inner'.lock_start_time = None ]_vars

\* C2 witness: the key-down of the passphrase's last character was blocked
\* and left the state unlocked with an empty buffer.
C2_Witness ==
  /\ last.op = "key"
  /\ TypedChar(last.arg) = Some(Passphrase[Len(Passphrase)])
  /\ last.res = "block"
  /\ ~inner.is_locked
  /\ inner.input_buffer = << >>
  /\ inner.lock_start_time = None

\* C3: a key event unlocks only if the buffer with that key's character
\* appended is the whole passphrase.
C3_UnlockOnlyOnFullMatch ==
  [][ (last'.op = "key" /\ inner.is_locked /\ ~inner'.is_locked) =>
        /\ IsSome(TypedChar(last'.arg))
        /\ Append(inner.input_buffer, Unwrap(TypedChar(last'.arg))) = Passphrase ]_vars

\* C3 witness: a typed character left a buffer that is longer than the
\* passphrase and ends with it, and the state is still locked.
C3_Witness ==
  /\ last.op = "key"
  /\ IsSome(TypedChar(last.arg))
  /\ inner.is_locked
  /\ Len(inner.input_buffer) > Len(Passphrase)
  /\ SubSeq(inner.input_buffer,
            Len(inner.input_buffer) - Len(Passphrase) + 1,
            Len(inner.input_buffer)) = Passphrase

\* The whole system with time passing and the auto-unlock thread's loop
\* running (its sleep always returns).
SpecLive ==
  /\ Init
  /\ [][NextControl]_vars
  /\ WF_vars(Tick(ControlOps))
  /\ WF_vars(AutoUnlockTick(ControlOps))

AutoUnlockArmed ==
  /\ inner.is_locked
  /\ IsSome(inner.auto_unlock_timeout)
  /\ Unwrap(inner.auto_unlock_timeout) > 0
  /\ ~inner.is_disabled

\* C4: locked with an auto-unlock timeout of T > 0 seconds and not
\* disabled, the state eventually becomes unlocked, whatever is typed.
C4_AutoUnlockEventually == AutoUnlockArmed ~> ~inner.is_locked

\* The same with the conclusion weakened: unlocked, or disabled meanwhile.
\* It holds under SpecLive, so disabling while locked is the only way the
\* lock outlives its timeout.
C4_UntilDisabled == AutoUnlockArmed ~> (~inner.is_locked \/ inner.is_disabled)

\* C5: when the permission monitor sees permission go from granted to
\* revoked while locked, it leaves is_locked false, the buffer empty and
\* the stop-event-tap flag set.
C5_PermissionLossForcesUnlock ==
  [][ ( /\ last'.op = "permission_monitor"
        /\ last'.res = "revoked"
        /\ inner.is_locked )
      => /\ ~inner'.is_locked
         /\ inner'.input_buffer = << >>
         /\ inner'.should_stop_event_tap ]_vars

C7_LockedIffStartTime ==
  inner.is_locked <=> IsSome(inner.lock_start_time)

\* C7 witness: lock() has just set is_locked and stamped lock_start_time.
C7_Witness ==
  /\ last = [op |-> "tray", arg |-> <<"lock">>, res |-> "Ok"]
  /\ inner.is_locked
  /\ inner.lock_start_time = Some(0)

\* C8: in no reachable state is is_locked false with a non-empty buffer.
C8_UnlockedBufferEmpty ==
  ~inner.is_locked => inner.input_buffer = << >>

\* C9: the buffer grows only in a step taken from a locked state, under
\* every interleaving of the callback's critical sections with the
\* auto-unlock supervisor, the permission monitor and controller unlock.
C9_AppendOnlyWhileLocked ==
  [][ Len(inner'.input_buffer) > Len(inner.input_buffer) => inner.is_locked ]_vars

\* C10: should_auto_unlock is false when not locked and, when locked with a
\* timeout of T > 0 seconds, true exactly when at least T seconds have
\* passed since the lock.
C10_AutoUnlockAtTimeout ==
  /\ ~inner.is_locked => ~should_auto_unlock(inner)
  /\ ( /\ inner.is_locked
       /\ IsSome(inner.auto_unlock_timeout)
       /\ Unwrap(inner.auto_unlock_timeout) > 0 )
     => /\ IsSome(inner.lock_start_time)
        /\ should_auto_unlock(inner)
             <=> Unwrap(inner.lock_start_time) >= Unwrap(inner.auto_unlock_timeout)

\* C10 witness: locked, exactly the timeout has passed, the check is true.
C10_Witness ==
  /\ inner.is_locked
  /\ inner.auto_unlock_timeout = Some(AutoUnlockTimeout)
  /\ inner.lock_start_time = Some(AutoUnlockTimeout)
  /\ should_auto_unlock(inner)

\* C11: an auto-unlock timeout of Some(0) behaves as None: should_auto_unlock
\* is false, get_auto_unlock_remaining_secs is None, and the auto-unlock
\* thread never unlocks.
C11_ZeroTimeoutIsNone ==
  inner.auto_unlock_timeout = Some(0) =>
    /\ ~should_auto_unlock(inner)
    /\ get_auto_unlock_remaining_secs(inner) = None
    /\ last.res # "fired"

\* C12: should_auto_unlock is true only when locked and at least the timeout
\* has passed since the most recent unlocked-to-locked transition.
C12_DeadlineFromLastLock ==
  should_auto_unlock(inner) =>
    /\ inner.is_locked
    /\ IsSome(timer_obs.since_lock)
    /\ Unwrap(timer_obs.since_lock) >= Unwrap(inner.auto_unlock_timeout)

\* C12 witness: in the second lock cycle, one second in, with a timeout of
\* two seconds, should_auto_unlock is false.
C12_Witness ==
  /\ timer_obs.locks = 2
  /\ inner.is_locked
  /\ inner.auto_unlock_timeout = Some(AutoUnlockTimeout)
  /\ timer_obs.since_lock = Some(AutoUnlockTimeout - 1)
  /\ ~should_auto_unlock(inner)

\* C13: set_locked(true) in a locked state leaves the whole state as it was.
C13_SetLockedIdempotent ==
  [][ ( /\ last'.op = "set_locked"
        /\ last'.arg = <<TRUE>>
        /\ inner.is_locked )
      => inner' = inner ]_vars

C15_UnlockMatchesDigest ==
  [][ last'.op = "unlock" =>
        IF last'.arg[1] = Passphrase
        THEN last'.res = "Ok(true)" /\ ~inner'.is_locked
        ELSE last'.res = "Ok(false)" /\ inner' = inner /\ core' = core ]_vars

\* C15 witness: a locked state was unlocked by the passphrase right after a
\* failed attempt.
C15_Witness ==
  /\ last = [op |-> "unlock", arg |-> <<Passphrase, TRUE>>, res |-> "Ok(true)"]
  /\ ~inner.is_locked
  /\ inner.input_buffer # << >>

\* C16: at most one interception handle is live, and a live handle is the
\* one the controller holds.
C16_AtMostOneLiveTap ==
  core.live_taps = (IF core.event_tap THEN 1 ELSE 0)

\* C17: restart_event_tap releases the handle held, if any; without the
\* permission it returns an error and holds no handle; with it, it holds one
\* new handle; it leaks none.
C17_RestartStopsThenStarts ==
  [][ last'.op = "restart_event_tap" =>
        LET unheld == core.live_taps - (IF core.event_tap THEN 1 ELSE 0)
        IN  IF ~os_permission
            THEN /\ last'.res = "Err"
                 /\ ~core'.event_tap
                 /\ core'.live_taps = unheld
            ELSE /\ last'.res = "Ok"
                 /\ core'.event_tap
                 /\ core'.live_taps = unheld + 1 ]_vars

\* C17 witness: a restart without the permission failed and left no handle
\* held and none live.
C17_Witness ==
  /\ last.op = "restart_event_tap"
  /\ last.res = "Err"
  /\ ~core.event_tap
  /\ core.live_taps = 0
  /\ ~os_permission

C19_TrayConsumesStop ==
  /\ [][ (last'.op = "tray" /\ inner.should_stop_event_tap)
         => /\ ~inner'.should_stop_event_tap
            /\ ~inner.should_start_event_tap => ~core'.event_tap ]_vars
  /\ (frontend = "tray" /\ inner.should_stop_event_tap)
       ~> ~inner.should_stop_event_tap

\* C19: on the permission-revoked sentinel the callback raises the stop and
\* the exit request, and both are eventually acted upon: the tray loop
\* takes the stop request, the command-line front-end takes the exit
\* request.
C19_StopAndExitActedUpon ==
  /\ [][ (last'.op = "sentinel"
          /\ last'.arg = <<K_CGEVENT_TAP_DISABLED_BY_USER_INPUT>>)
         => inner'.should_stop_event_tap /\ inner'.should_exit ]_vars
  /\ (frontend = "tray" /\ inner.should_stop_event_tap)
       ~> ~inner.should_stop_event_tap
  /\ (frontend = "cli" /\ inner.should_exit) ~> ~inner.should_exit

C21_FlagsAreMailboxes ==
  /\ [][ last'.op = "and_clear"
         => /\ last'.res[1] <=> (last'.arg[1] \in FlagsRequested)
            /\ ~inner'[last'.arg[1]] ]_vars
  /\ [][ (last.op = "and_clear" /\ last'.op = "and_clear"
          /\ last.arg[1] = last'.arg[1])
         => ~(last.res[1] /\ last'.res[1]) ]_vars

\* C21 witness: the second consumer has taken the stop request while the
\* start and the exit request still wait.
C21_Witness ==
  /\ last.op = "and_clear"
  /\ last.arg = <<"should_stop_event_tap", 2>>
  /\ last.res = <<TRUE, {"should_start_event_tap", "should_exit"}>>
  /\ ~inner.should_stop_event_tap
  /\ inner.should_start_event_tap

\* C22: while is_disabled is true no step of a timer supervisor or of the
\* hotkey listener changes is_locked, input_buffer, the cached permission
\* or a request flag.
C22_DisabledSupervisorsIdle ==
  [][ (inner.is_disabled /\ last'.op \in SupervisorOps)
      => /\ inner'.is_locked = inner.is_locked
         /\ inner'.input_buffer = inner.input_buffer
         /\ inner'.has_accessibility_permissions = inner.has_accessibility_permissions
         /\ inner'.should_stop_event_tap = inner.should_stop_event_tap
         /\ inner'.should_start_event_tap = inner.should_start_event_tap
         /\ inner'.should_exit = inner.should_exit ]_vars

C24_TalkPassthroughOnlySpace ==
  [][ (last'.op = "key" /\ inner.is_locked /\ inner.talk_key_pressed)
      => IF last'.arg[2] = SPACE_KEYCODE
         THEN last'.res = "pass" /\ inner' = inner
         ELSE last'.res = "block" ]_vars

\* C24 witness: a space key-down has been passed through while locked with
\* the talk key held and typed characters in the buffer.
C24_Witness ==
  /\ last = [op |-> "key", arg |-> <<"KeyDown", SPACE_KEYCODE, {}>>, res |-> "pass"]
  /\ inner.is_locked
  /\ inner.talk_key_pressed
  /\ inner.input_buffer = <<"t">>

\* C25: a lock-hotkey event, key-down or key-up, is always blocked by the
\* engine; when the state is already locked neither the engine's handling
\* of it nor the hotkey listener's changes anything of the session state.
C25_LockHotkeyWhileLocked ==
  /\ [][ (last'.op = "key" /\ last'.arg[2] = DEFAULT_LOCK_KEYCODE
          /\ HotkeyModifiers \subseteq last'.arg[3])
         => /\ last'.res = "block"
            /\ inner.is_locked => inner' = inner ]_vars
  /\ [][ (last'.op = "hotkey" /\ last'.arg = <<"lock">> /\ inner.is_locked)
         => inner' = inner ]_vars

\* C25 witness: the listener has received the lock hotkey a second after the
\* lock was engaged, and the lock's start time is still a second old.
C25_Witness ==
  /\ last = [op |-> "hotkey", arg |-> <<"lock">>, res |-> "none"]
  /\ inner.is_locked
  /\ inner.lock_start_time = Some(1)
  /\ inner.input_buffer = <<"t">>

\* The part of C26 that holds: for the pointer event types in the event
\* mask.
C26_MaskedPointerEvents ==
  [][ (last'.op = "pointer" /\ last'.arg[1] \in event_mask)
      => /\ inner'.last_input_time = 0
         /\ IF last'.arg[1] = "MouseMoved" THEN last'.res = "pass"
            ELSE last'.res = "block" <=> inner.is_locked ]_vars

\* C26: every pointer event refreshes last_input_time; movement is passed
\* through; every button, scroll and drag event, of the left, the right and
\* the other buttons, is blocked when locked and passed through when not.
C26_PointerEvents ==
  [][ last'.op = "pointer"
      => /\ inner'.last_input_time = 0
         /\ IF last'.arg[1] = "MouseMoved" THEN last'.res = "pass"
            ELSE last'.res = "block" <=> inner.is_locked ]_vars

\* C27: a key-down while locked that is no hotkey, no passed-through space
\* and does not complete the passphrase: a backspace removes the last
\* character of input_buffer, or leaves an empty buffer empty, and
\* refreshes last_key_time; a classified character is appended at the end
\* and refreshes last_key_time; an unclassifiable key changes nothing.
C27_BufferFollowsKeystrokes ==
  [][ (/\ last'.op = "key" /\ last'.arg[1] = "KeyDown"
       /\ inner.is_locked /\ inner'.is_locked
       /\ ~IsHotkey(last'.arg)
       /\ ~(inner.talk_key_pressed /\ last'.arg[2] = SPACE_KEYCODE))
      => IF last'.arg[2] = BACKSPACE_KEYCODE
         THEN /\ inner'.input_buffer =
                   IF inner.input_buffer = << >> THEN << >>
                   ELSE SubSeq(inner.input_buffer, 1, Len(inner.input_buffer) - 1)
              /\ inner'.last_key_time = Some(0)
         ELSE IF IsSome(TypedChar(last'.arg))
         THEN /\ inner'.input_buffer =
                   inner.input_buffer \o <<Unwrap(TypedChar(last'.arg))>>
              /\ inner'.last_key_time = Some(0)
         ELSE inner' = inner ]_vars

\* C27 witness: a backspace has removed the last of two typed characters a
\* second after it was typed.
C27_Witness ==
  /\ last = [op |-> "key", arg |-> <<"KeyDown", BACKSPACE_KEYCODE, {}>>, res |-> "block"]
  /\ inner.is_locked
  /\ inner.input_buffer = <<"l">>
  /\ inner.last_key_time = Some(0)
  /\ inner.last_input_time = 1

\* C27 as stated, for every key-down while locked that is no hotkey and
\* does not complete the passphrase, a space typed while talk_key_pressed
\* included.
C27_Original ==
  [][ (/\ last'.op = "key" /\ last'.arg[1] = "KeyDown"
       /\ inner.is_locked /\ inner'.is_locked
       /\ ~IsHotkey(last'.arg))
      => IF last'.arg[2] = BACKSPACE_KEYCODE
         THEN /\ inner'.input_buffer =
                   IF inner.input_buffer = << >> THEN << >>
                   ELSE SubSeq(inner.input_buffer, 1, Len(inner.input_buffer) - 1)
              /\ inner'.last_key_time = Some(0)
         ELSE IF IsSome(TypedChar(last'.arg))
         THEN /\ inner'.input_buffer =
                   inner.input_buffer \o <<Unwrap(TypedChar(last'.arg))>>
              /\ inner'.last_key_time = Some(0)
         ELSE inner' = inner ]_vars

\* The appends the test threads have completed or applied so far.
AppendsDone ==
  LET done(t) == (CallsPerWorker - workers.todo[t])
                 + (IF workers.todo[t] > 0 /\ workers.pc[t] = 3 THEN 1 ELSE 0)
  IN  done(1) + done(2)

\* C28: no thread asks for the state mutex while it holds it; the buffer is
\* at every moment as long as the number of appends made; and every thread,
\* the ones setting the lock state included, finishes all its calls.
C28_NoDeadlockNoLostAppend ==
  /\ [](\A t \in Workers :
          (workers.todo[t] > 0
           /\ accessor_body(WorkerCall(t)[1])[workers.pc[t]] = "lock")
          => workers.holder # t)
  /\ [](Len(inner.input_buffer) = AppendsDone)
  /\ <>(\A t \in Workers : workers.todo[t] = 0)

\* C28 witness: all four threads have finished and the buffer holds the
\* four appended characters.
C28_Witness ==
  /\ \A t \in Workers : workers.todo[t] = 0
  /\ workers.holder = 0
  /\ Len(inner.input_buffer) = 2 * CallsPerWorker

\* The part of C29 that holds: after the command-line front-end's startup
\* the stored auto-lock timeout is the default or within its range and the
\* auto-unlock timeout is None or within its range.
C29_CliTimeoutsInRange ==
  last.op = "cli_main"
  => /\ inner.auto_lock_timeout \in AUTO_LOCK_MIN_SECONDS..AUTO_LOCK_MAX_SECONDS
     /\ \/ inner.auto_unlock_timeout = None
        \/ Unwrap(inner.auto_unlock_timeout)
             \in AUTO_UNLOCK_MIN_SECONDS..AUTO_UNLOCK_MAX_SECONDS

\* C29: after the startup configuration of either front-end the stored
\* auto_lock_timeout is within [20,600] and the stored auto_unlock_timeout
\* is None or within [60,900].
C29_TimeoutsInRange ==
  last.op \in {"cli_main", "tray_main"}
  => /\ inner.auto_lock_timeout \in AUTO_LOCK_MIN_SECONDS..AUTO_LOCK_MAX_SECONDS
     /\ \/ inner.auto_unlock_timeout = None
        \/ Unwrap(inner.auto_unlock_timeout)
             \in AUTO_UNLOCK_MIN_SECONDS..AUTO_UNLOCK_MAX_SECONDS

\* C30: a configuration that Config::new or Config::load_from_path accepts
\* has each configured hotkey a single letter and effective lock and talk
\* keys that differ.
C30_EffectiveHotkeysDiffer ==
  (last.op \in {"Config::new", "Config::load_from_path"} /\ last.res = "Ok")
  => /\ IsSome(last.arg[1]) => validate_hotkey(Unwrap(last.arg[1]))
     /\ IsSome(last.arg[2]) => validate_hotkey(Unwrap(last.arg[2]))
     /\ get_lock_key_code(last.arg[1]) # get_talk_key_code(last.arg[2])

\* C31: the engine's raw-event detection and the hotkey listener recognise
\* the same bindings: a key-down that arrives unlocked with the talk flag
\* down locks exactly when it is Ctrl+Cmd+Shift plus the lock key of the
\* session state, raises the talk flag exactly when it is Ctrl+Cmd+Shift
\* plus the talk key of the session state, and these two keys are the ones
\* the listener registers.
C31_BindingsAgree ==
  [][ ( /\ last'.op = "key"
        /\ last'.arg[1] = "KeyDown"
        /\ ~inner.is_locked
        /\ ~inner.talk_key_pressed )
      => /\ inner'.is_locked
              <=> ( /\ last'.arg[2] = inner.lock_keycode
                    /\ HotkeyModifiers \subseteq last'.arg[3] )
         /\ inner'.talk_key_pressed
              <=> ( /\ last'.arg[2] = inner.talk_keycode
                    /\ HotkeyModifiers \subseteq last'.arg[3] )
         /\ register_lock_hotkey = inner.lock_keycode
         /\ register_talk_hotkey = inner.talk_keycode ]_vars

\* C32: for all plaintexts P and P' over the alphabet: the digest is 64
\* hexadecimal digits; verify(P, hash(P)) is true, the digest computed by
\* verify being the one hash computed before; verify(P', hash(P)) is true
\* only if hash(P') = hash(P), and for P' different from P it is false and
\* the digests differ.  The digest the other specifications use in its
\* place tells apart exactly the plaintexts that this one tells apart.
C32_DigestVerifies ==
  last.op = "verify_passphrase" =>
    LET p == last.arg[1]
        q == last.arg[2]
        hash_p == last.res.hash[1]
        hash_q == last.res.hash[2]
    IN  /\ Len(hash_p) = 64 /\ Len(hash_q) = 64
        /\ \A i \in 1..64 :
             /\ \E d \in 1..16 : hash_p[i] = HexDigits[d]
             /\ \E d \in 1..16 : hash_q[i] = HexDigits[d]
        /\ last.res.verify[1]
        /\ last.res.verify[2] => hash_q = hash_p
        /\ p # q => ~last.res.verify[2] /\ hash_q # hash_p
        /\ (hash_passphrase(p) = hash_passphrase(q)) <=> (hash_p = hash_q)

\* C32 witness: of two case-distinct plaintexts, the first was verified
\* against its own digest and the second rejected against it.
C32_Witness ==
  /\ last.op = "verify_passphrase"
  /\ last.arg = << <<"a">>, <<"A">> >>
  /\ last.res.verify = << TRUE, FALSE >>

\* The keys of the US layout with the characters expected of them: the
\* letters in alphabetical order, the digit row, the punctuation keys, and
\* the keys that give one character whatever the shift state.
C33_LetterKeycodes ==
  << 0, 11, 8, 2, 14, 3, 5, 4, 34, 38, 40, 37, 46, 45, 31, 35, 12, 15, 1,
     17, 32, 9, 13, 7, 16, 6 >>
C33_Lower ==
  << "a", "b", "c", "d", "e", "f", "g", "h", "i", "j", "k", "l", "m", "n",
     "o", "p", "q", "r", "s", "t", "u", "v", "w", "x", "y", "z" >>
C33_Upper ==
  << "A", "B", "C", "D", "E", "F", "G", "H", "I", "J", "K", "L", "M", "N",
     "O", "P", "Q", "R", "S", "T", "U", "V", "W", "X", "Y", "Z" >>
C33_DigitKeycodes == << 18, 19, 20, 21, 23, 22, 26, 28, 25, 29 >>
C33_Digits == << "1", "2", "3", "4", "5", "6", "7", "8", "9", "0" >>
C33_ShiftedDigits == << "!", "@", "#", "$", "%", "^", "&", "*", "(", ")" >>
C33_PunctuationKeycodes == << 27, 24, 33, 30, 41, 39, 42, 43, 47, 44, 50 >>
C33_Punctuation ==
  << "-", "=", "[", "]", ";", "'", "\\", ",", ".", "/", "backtick" >>
C33_ShiftedPunctuation ==
  << "_", "+", "{", "}", ":", "\"", "|", "<", ">", "?", "~" >>
C33_WhitespaceKeycodes == << 49, 48, 36, 76 >>
C33_Whitespace == << " ", "\t", "\n", "\n" >>

C33_Expected(keycode, shift) ==
  LET keycodes == C33_LetterKeycodes \o C33_DigitKeycodes
                    \o C33_PunctuationKeycodes \o C33_WhitespaceKeycodes
      unshifted == C33_Lower \o C33_Digits \o C33_Punctuation \o C33_Whitespace
      shifted == C33_Upper \o C33_ShiftedDigits \o C33_ShiftedPunctuation
                   \o C33_Whitespace
      at == { i \in 1..Len(keycodes) : keycodes[i] = keycode }
  IN  IF at = {} THEN None
      ELSE LET i == CHOOSE j \in at : TRUE
           IN  Some(IF shift THEN shifted[i] ELSE unshifted[i])

\* C33: keycode_to_char is total: each letter, digit and punctuation
\* keycode gives its unshifted or shifted character according to shift,
\* space, tab and return give the same character for both shift values,
\* and delete (51), escape (53), the arrow keys (123..126), the negative
\* and all unlisted keycodes give None.
C33_ClassifierTable ==
  last.op = "keycode_to_char" =>
    LET keycode == last.arg[1]
        shift == last.arg[2]
    IN  /\ last.res = C33_Expected(keycode, shift)
        /\ keycode \in {51, 53, 123, 124, 125, 126} => last.res = None
        /\ keycode < 0 => last.res = None
        /\ keycode \in {49, 48, 36, 76} =>
             last.res = keycode_to_char(keycode, ~shift)

\* C33 witness: the shifted L key was classified as the capital letter.
C33_Witness ==
  /\ last.op = "keycode_to_char"
  /\ last.arg = << 37, TRUE >>
  /\ last.res = Some("L")

\* C34: whenever the auto-lock supervisor calls set_locked(true), in the
\* state it acts on the app is not locked, at least auto_lock_timeout
\* seconds have passed since last_input_time, and the cached permission is
\* granted.
C34_AutoLockPreconditions ==
  [][ last'.op = "auto_lock"
      => /\ ~inner.is_locked
         /\ inner.last_input_time >= inner.auto_lock_timeout
         /\ inner.has_accessibility_permissions ]_vars

\* A non-empty proper prefix of the passphrase.
C35_ProperPrefix(buffer) ==
  /\ buffer # << >>
  /\ Len(buffer) < Len(Passphrase)
  /\ buffer = SubSeq(Passphrase, 1, Len(buffer))

\* C35: should_reset_buffer() is false while no keystroke time is recorded
\* and while the time since the last keystroke is below the timeout, and
\* true otherwise; a pass of the buffer-reset thread that finds a proper
\* prefix of the passphrase typed at least buffer_reset_timeout seconds ago
\* empties the buffer; and the key that would have completed the passphrase,
\* typed right after such a pass, leaves the app locked.
C35_IdleResetDiscardsPrefix ==
  /\ [](should_reset_buffer(inner)
          <=> ( /\ IsSome(inner.last_key_time)
                /\ Unwrap(inner.last_key_time) >= inner.buffer_reset_timeout ))
  /\ [][ ( /\ last'.op = "buffer_reset"
           /\ inner.is_locked
           /\ C35_ProperPrefix(inner.input_buffer)
           /\ IsSome(inner.last_key_time)
           /\ Unwrap(inner.last_key_time) >= inner.buffer_reset_timeout )
         => inner'.input_buffer = << >> /\ last'.res = "cleared" ]_vars
  /\ [][ ( /\ last.op = "buffer_reset"
           /\ last.res = "cleared"
           /\ inner.is_locked
           /\ C35_ProperPrefix(last.arg[1])
           /\ last'.op = "key"
           /\ keycode_to_char(last'.arg[2], "Shift" \in last'.arg[3])
                = Some(Passphrase[Len(last.arg[1]) + 1]) )
         => inner'.is_locked ]_vars

\* C35 witness: the buffer-reset thread has just discarded the first
\* character of the passphrase, typed while locked.
C35_Witness ==
  /\ last = [op |-> "buffer_reset", arg |-> << <<"t">> >>, res |-> "cleared"]
  /\ inner.is_locked
  /\ inner.input_buffer = << >>

\* C36: talk_key_pressed is true only while the talk key is physically
\* down, in whatever order the key and its modifiers went down and up.
C36_TalkFlagOnlyWhileHeld ==
  inner.talk_key_pressed => keyboard.talk_down

\* The last step was the key-down that completed the passphrase: a blocked
\* key-down that is no hotkey and leaves the app unlocked.
C37_JustUnlockedByPassphrase ==
  /\ last.op = "key"
  /\ last.res = "block"
  /\ last.arg[1] = "KeyDown"
  /\ ~(HotkeyModifiers \subseteq last.arg[3])
  /\ ~inner.is_locked

\* C37: after the passphrase has unlocked, the auto-lock supervisor does
\* not lock again before auto_lock_timeout seconds have passed since the
\* unlock: a pass of the supervisor that comes right after the unlocking
\* key, no second having passed, does not lock.
C37_NoRelockAfterPassphrase ==
  [][ (C37_JustUnlockedByPassphrase /\ last'.op = "auto_lock")
      => ~inner'.is_locked ]_vars

\* C38: whenever is_locked is true the controller holds a live event tap.
C38_LockedImpliesIntercepting ==
  inner.is_locked => core.event_tap

\* C39: is_disabled and is_locked are never both true.
C39_NeverLockedWhileDisabled ==
  ~(inner.is_disabled /\ inner.is_locked)

\* C40: the callback's read of the buffer, pop and write-back act as one
\* step with respect to clear_buffer: the write-back leaves the buffer as
\* it is at that moment less its last character, so after a clear by the
\* buffer-reset thread it leaves the buffer empty.
C40_BackspaceAtomicWithClear ==
  [][ last'.op = "write_back"
      => inner'.input_buffer = Pop(inner.input_buffer) ]_vars

====
